---- MODULE Spec2Model ----
(***************************************************************************)
(* A model of the metric collection and enrichment pipeline of             *)
(* otc-cloudeye-exporter: the retry executor (withRetry), the two          *)
(* enrichment caches (rmsCache, obsTagCache) with their background         *)
(* cleaners, and one scrape (CloudEyeCollector.Collect) over the           *)
(* requested namespaces.                                                   *)
(*                                                                         *)
(* Go strings are sequences of one-character strings, so that the string   *)
(* functions of the code (Contains, ToLower, HasPrefix, Split, Sprintf)    *)
(* are computed as the code computes them.                                 *)
(*                                                                         *)
(* Three specifications share the variables:                               *)
(*   SpecRetry   one run of withRetry under a drawn RetryConfig;           *)
(*   SpecCache   the operations of one enrichment cache instance and its   *)
(*               cleaner under a ticking clock;                            *)
(*   SpecScrape  one Collect call of one project's collector, or one call  *)
(*               of ExportMetricValuesBatch for a namespace.               *)
(***************************************************************************)
EXTENDS Integers, Sequences, FiniteSets, TLC

VARIABLES
    \* ---- withRetry (SpecRetry)
    rc,          \* the RetryConfig of the run
    wr,          \* the loop state of withRetry: attempt, invocations, sleeps, outcome
    \* ---- enrichment caches (SpecCache, SpecScrape)
    now,         \* the clock (time.Now), in ticks of TickMinutes minutes
    instance,    \* the cache instance (SpecCache) or the entry point (SpecScrape)
    rmsCache,    \* rmsCacheType.m : key -> cachedRmsEntry
    obsTagCache, \* obsTagCache    : key -> cachedObsEntry
    getter,      \* the goroutine inside a cache lookup
    cleaner,     \* the cleaner goroutine of the instance
    \* ---- one scrape (SpecScrape)
    client,      \* *clients.Clients of the project: which service clients it holds
    cfg,         \* *config.Config: the settings the pipeline reads
    namespaces,  \* prometheusHandler: the namespaces requested of the scrape
    services,    \* CloudEyeCollector.services: the validated namespaces
    ns,          \* Collect: the index in services of the namespace being scraped
    main,        \* the goroutine of Collect inside ExportMetricValuesBatch
    tasks,       \* processMetrics: one goroutine per data point of the batch
    results,     \* processMetrics: the records appended under the mutex
    scraped,     \* per namespace already scraped: what ExportMetricValuesBatch returned
    published,   \* the metrics sent on the channel of Collect, in order
    \* ---- the label maps of the records (SpecExport)
    heap         \* the label maps allocated: heap[a] is the map at address a

retryVars == <<rc, wr>>
cacheVars == <<now, instance, rmsCache, obsTagCache, getter, cleaner>>
scrapeVars == <<client, cfg, namespaces, services, ns, main, tasks, results, scraped, published,
                heap>>
scrapeVarsButTasks == <<client, cfg, namespaces, services, ns, main, results, scraped, published,
                        heap>>
vars == <<rc, wr, now, instance, rmsCache, obsTagCache, getter, cleaner,
          client, cfg, namespaces, services, ns, main, tasks, results, scraped,
          published, heap>>

(***************************************************************************)
(* Strings                                                                 *)
(***************************************************************************)
UpperChars == <<"A","B","C","D","E","F","G","H","I","J","K","L","M",
                "N","O","P","Q","R","S","T","U","V","W","X","Y","Z">>
LowerChars == <<"a","b","c","d","e","f","g","h","i","j","k","l","m",
                "n","o","p","q","r","s","t","u","v","w","x","y","z">>

ToLowerChar(c) ==
    IF \E i \in 1..Len(UpperChars) : UpperChars[i] = c
    THEN LowerChars[CHOOSE i \in 1..Len(UpperChars) : UpperChars[i] = c]
    ELSE c

\* strings.ToLower
ToLower(s) == [i \in 1..Len(s) |-> ToLowerChar(s[i])]

\* strings.Contains
Contains(s, sub) ==
    \E i \in 0..(Len(s) - Len(sub)) : SubSeq(s, i + 1, i + Len(sub)) = sub

\* strings.HasPrefix
HasPrefix(s, p) == Len(s) >= Len(p) /\ SubSeq(s, 1, Len(p)) = p

\* strings.HasSuffix
HasSuffix(s, p) == Len(s) >= Len(p) /\ SubSeq(s, Len(s) - Len(p) + 1, Len(s)) = p

Min(a, b) == IF a < b THEN a ELSE b

Max(a, b) == IF a > b THEN a ELSE b

RECURSIVE Pow(_, _)
Pow(b, e) == IF e = 0 THEN 1 ELSE b * Pow(b, e - 1)

\* a Go nil error or nil string pointer: no text is this sequence
Nil == <<"<nil>">>

(***************************************************************************)
(* Text constants (Go string literals)                                     *)
(***************************************************************************)
\* strconv / %d of a non-negative int
Digits == <<"0","1","2","3","4","5","6","7","8","9">>

RECURSIVE Itoa(_)
Itoa(n) == IF n < 10 THEN <<Digits[n + 1]>>
           ELSE Itoa(n \div 10) \o <<Digits[(n % 10) + 1]>>

s408 == <<"4","0","8">>
s429 == <<"4","2","9">>
s500 == <<"5","0","0">>
s503 == <<"5","0","3">>
sTimeout == <<"t","i","m","e","o","u","t">>
sConnectionReset ==
    <<"c","o","n","n","e","c","t","i","o","n"," ","r","e","s","e","t">>
sConnectionRefused ==
    <<"c","o","n","n","e","c","t","i","o","n"," ","r","e","f","u","s","e","d">>

\* constants.RetryableErrors
RetryableErrors ==
    <<s408, s429, s500, s503, sTimeout, sConnectionReset, sConnectionRefused>>

\* error texts a remote operation of the model may return
eRateLimit == s429 \o <<" ","T","o","o"," ","M","a","n","y">>
eGatewayTimeout == <<"G","a","t","e","w","a","y"," ","T","i","m","e","o","u","t">>
eIoTimeout == <<"i","/","o"," ">> \o sTimeout
eServerError == s500 \o <<" ","I","n","t","e","r","n","a","l">>
eConnReset == <<"r","e","a","d",":"," ">> \o sConnectionReset
eForbidden == <<"4","0","3"," ","F","o","r","b","i","d","d","e","n">>
eBadRequest == <<"b","a","d"," ","r","e","q","u","e","s","t">>

OpErrors == {eRateLimit, eGatewayTimeout, eIoTimeout, eServerError, eConnReset,
             eForbidden, eBadRequest}

(***************************************************************************)
(* RetryExecutor: RetryConfig, shouldRetry, getBackoffDuration, withRetry  *)
(***************************************************************************)
\* Bounds of the drawn RetryConfig.  Durations are in milliseconds; the
\* multiplier (a float64 in the code) is a fraction num/den whose powers are
\* exact in float64 and in the model for every attempt the bounds allow.
MaxRetriesBound == 3

InitialBackoffs == {1000, 5000}

MaxBackoffs == {3000, 120000}

Multipliers == {[num |-> 1, den |-> 1], [num |-> 2, den |-> 1],
                [num |-> 3, den |-> 2], [num |-> 1, den |-> 2]}

RetryConfigs ==
    [MaxRetries : 0..MaxRetriesBound, InitialBackoff : InitialBackoffs,
     MaxBackoff : MaxBackoffs, BackoffMultiplier : Multipliers]

\* RetryConfig.shouldRetry, without the lower-casing of the error text
shouldRetry_CaseSensitive(c, err, attempt) ==
    IF err = Nil \/ attempt >= c.MaxRetries THEN FALSE
    ELSE \E i \in 1..Len(RetryableErrors) : Contains(err, RetryableErrors[i])

\* RetryConfig.shouldRetry, retrying every error below the attempt limit
shouldRetry_AnyError(c, err, attempt) ==
    IF err = Nil \/ attempt >= c.MaxRetries THEN FALSE ELSE TRUE

\* RetryConfig.shouldRetry
shouldRetry(c, err, attempt) ==
    IF err = Nil \/ attempt >= c.MaxRetries THEN FALSE
    ELSE LET errStr == ToLower(err)
         IN \E i \in 1..Len(RetryableErrors) : Contains(errStr, RetryableErrors[i])

\* RetryConfig.getBackoffDuration, without the cap at MaxBackoff
getBackoffDuration_NoCap(c, attempt) ==
    (c.InitialBackoff * Pow(c.BackoffMultiplier.num, attempt))
        \div Pow(c.BackoffMultiplier.den, attempt)

\* RetryConfig.getBackoffDuration: InitialBackoff * multiplier^attempt as a real
\* number n/d, capped at MaxBackoff, truncated by the conversion to Duration
getBackoffDuration(c, attempt) ==
    LET n == c.InitialBackoff * Pow(c.BackoffMultiplier.num, attempt)
        d == Pow(c.BackoffMultiplier.den, attempt)
    IN IF n > c.MaxBackoff * d THEN c.MaxBackoff ELSE n \div d

sOperation == <<"o","p","e","r","a","t","i","o","n"," ">>
sFailedAfter == <<" ","f","a","i","l","e","d"," ","a","f","t","e","r"," ">>
sAttempts == <<" ","a","t","t","e","m","p","t","s",":"," ">>
sNilVerb == <<"%","!","w","(","<","n","i","l",">",")">>

\* fmt.Errorf("operation %s failed after %d attempts: %w", name, MaxRetries+1, err)
WrapRetryError(c, operationName, err) ==
    sOperation \o operationName \o sFailedAfter \o Itoa(c.MaxRetries + 1)
        \o sAttempts \o (IF err = Nil THEN sNilVerb ELSE err)

\* the state of withRetry before its loop
NewRetry ==
    [attempt |-> 0, calls |-> 0, slept |-> <<>>, status |-> "running",
     err |-> Nil, result |-> Nil, retErr |-> Nil]

\* One iteration of the loop of withRetry on the loop state f: the backoff sleep
\* (attempt > 0), the invocation of the operation, which answers out = [result, err],
\* and the three exits.  calls and slept record the invocations and the sleeps.
withRetryStep(f, c, operationName, out) ==
    LET slept == IF f.attempt > 0
                 THEN Append(f.slept, getBackoffDuration(c, f.attempt - 1))
                 ELSE f.slept
        g == [f EXCEPT !.slept = slept, !.calls = @ + 1,
                       !.err = out.err, !.result = out.result]
        failed == [g EXCEPT !.status = "failed",
                            !.retErr = WrapRetryError(c, operationName, out.err)]
    IN IF out.err = Nil THEN [g EXCEPT !.status = "ok"]
       ELSE IF ~shouldRetry(c, out.err, f.attempt) THEN failed
       ELSE IF f.attempt + 1 <= c.MaxRetries THEN [g EXCEPT !.attempt = @ + 1]
       ELSE failed

\* the operations withRetry is run on in SpecRetry
sOpName == <<"o","p">>

OpResult == <<"r">>

OpOutcomes ==
    {[result |-> OpResult, err |-> Nil]} \cup {[result |-> Nil, err |-> e] : e \in OpErrors}

IdleCache ==
    /\ now = 0
    /\ instance = "none"
    /\ rmsCache = <<>>
    /\ obsTagCache = <<>>
    /\ getter = <<>>
    /\ cleaner = <<>>

\* no scrape is running
IdleScrape ==
    /\ client = <<>>
    /\ cfg = <<>>
    /\ namespaces = <<>>
    /\ services = <<>>
    /\ ns = 0
    /\ main = <<>>
    /\ tasks = <<>>
    /\ results = <<>>
    /\ scraped = <<>>
    /\ published = <<>>
    /\ heap = <<>>

InitRetry ==
    /\ rc \in RetryConfigs
    /\ wr = NewRetry
    /\ IdleCache
    /\ IdleScrape

\* withRetry: one loop iteration
WithRetryAttempt ==
    /\ wr.status = "running"
    /\ \E out \in OpOutcomes : wr' = withRetryStep(wr, rc, sOpName, out)
    /\ UNCHANGED <<rc, cacheVars, scrapeVars>>

NextRetry == WithRetryAttempt

SpecRetry == InitRetry /\ [][NextRetry]_vars

(***************************************************************************)
(* Go maps (map[string]string, sync.Map) as functions                      *)
(***************************************************************************)
EmptyMap == <<>>

\* m[k] = v
MapSet(m, k, v) == [x \in (DOMAIN m) \cup {k} |-> IF x = k THEN v ELSE m[x]]

\* delete(m, k), sync.Map.Delete
MapDelete(m, k) == [x \in (DOMAIN m) \ {k} |-> m[x]]

\* m[k] of Go: the zero value "" when k is absent
MapGet(m, k) == IF k \in DOMAIN m THEN m[k] ELSE <<>>

\* for k, v := range src { dst[k] = v }
MapMerge(dst, src) ==
    [x \in (DOMAIN dst) \cup (DOMAIN src) |-> IF x \in DOMAIN src THEN src[x] ELSE dst[x]]

(***************************************************************************)
(* EnrichmentCache: rmsCacheType (inventory) and obsTagCache (object       *)
(* storage), their lookups and their cleaners.                             *)
(*                                                                         *)
(* The clock counts ticks of five minutes: the TTL of 15 minutes is 3      *)
(* ticks and the cleaners' period of 30 minutes is 6.                      *)
(***************************************************************************)
rmsCacheTTL == 3

rmsCacheCleanTime == 6

obsTagCacheTTL == 3

obsCacheCleanTime == 6

\* the clock stops at MaxClock
MaxClock == 6

sIdColon == <<"i","d",":">>
sNameColon == <<"n","a","m","e",":">>
sBucketColon == <<"b","u","c","k","e","t",":">>
sInfoColon_AsTags == <<"b","u","c","k","e","t",":">>
sInfoColon == <<"i","n","f","o",":">>
sId == <<"i","d">>
sName == <<"n","a","m","e">>
sBucketName == <<"b","u","c","k","e","t","_","n","a","m","e">>
sLocation == <<"l","o","c","a","t","i","o","n">>

sVm1 == <<"v","m","-","1">>
sWeb == <<"w","e","b">>
sDb == <<"d","b">>
sB1 == <<"b","1">>
sEnv == <<"e","n","v">>
sProd == <<"p","r","o","d">>
sDev == <<"d","e","v">>
sEuDe == <<"e","u","-","d","e">>

\* cachedRmsEntry / cachedObsEntry; NoEntry stands for "no value loaded"
NoEntry == [data |-> EmptyMap, timestamp |-> -1]

\* rmsCacheType.Get line 306 and Clean line 324, the test reversed
RmsExpired_Reversed(entry, t) == t - entry.timestamp < rmsCacheTTL

\* rmsCacheType.Get line 306 and Clean line 324: time.Since(entry.timestamp) > rmsCacheTTL
RmsExpired(entry, t) == t - entry.timestamp > rmsCacheTTL

\* GetBucketTags line 56, GetBucketInfo line 111, with "not swept yet" for "fresh"
ObsFresh_Lenient(entry, t) == t - entry.timestamp < obsCacheCleanTime

\* GetBucketTags line 56, GetBucketInfo line 111: time.Since(cached.timestamp) < obsTagCacheTTL
ObsFresh(entry, t) == t - entry.timestamp < obsTagCacheTTL

\* startObsTagCacheCleaner line 156: now.Sub(entry.timestamp) > obsTagCacheTTL
ObsExpired(entry, t) == t - entry.timestamp > obsTagCacheTTL

\* the payloads and keys SpecCache sets and gets in the inventory cache
RmsPayloads == {(sId :> sVm1) @@ (sName :> sWeb), (sId :> sVm1) @@ (sName :> sDb)}

RmsKeys == {sIdColon \o sVm1, sNameColon \o sWeb}

\* cacheResource stores a record under "id:" + its id and "name:" + its name
RmsSets == {kd \in RmsKeys \X RmsPayloads :
              kd[1] \in {sIdColon \o kd[2][sId], sNameColon \o kd[2][sName]}}

\* the buckets SpecCache looks up, and the answers of the object storage
ObsBuckets == {sB1}

\* GetBucketTagging: the tag list of the output (a tag may have an empty key)
RemoteTagLists ==
    {<<>>, <<[Key |-> sEnv, Value |-> sProd]>>,
     <<[Key |-> <<>>, Value |-> sDev], [Key |-> sEnv, Value |-> sDev]>>}

RemoteLocations == {sEuDe}

\* GetBucketTags lines 83-88: the tags with a non-empty key, later ones winning
RECURSIVE TagsToMap(_)
TagsToMap(tags) ==
    IF tags = <<>> THEN EmptyMap
    ELSE LET init == TagsToMap(SubSeq(tags, 1, Len(tags) - 1))
             tag == tags[Len(tags)]
         IN IF tag.Key # <<>> THEN MapSet(init, tag.Key, tag.Value) ELSE init

\* a goroutine that is in no cache lookup.  In a lookup: the key, the entry it
\* loaded, the time at which it tested the TTL, and what it returns.
IdleGetter ==
    [pc |-> "idle", op |-> "none", key |-> Nil, entry |-> NoEntry,
     found |-> FALSE, data |-> EmptyMap, err |-> Nil, at |-> 0]

\* the cleaner goroutine waiting for the tick at time tick
IdleCleaner(tick) ==
    [pc |-> "idle", nextTick |-> tick, now |-> 0, todo |-> {}, key |-> Nil,
     entry |-> NoEntry]

InitCache ==
    /\ now = 0
    /\ instance \in {"rms", "obs"}
    /\ rmsCache = EmptyMap
    /\ obsTagCache = EmptyMap
    /\ getter = IdleGetter
    /\ cleaner = IdleCleaner(IF instance = "rms" THEN rmsCacheCleanTime
                             ELSE obsCacheCleanTime)
    /\ rc \in {c \in RetryConfigs : c.MaxRetries = 0 /\ c.BackoffMultiplier.num = 2
                                      /\ c.InitialBackoff = 1000 /\ c.MaxBackoff = 3000}
    /\ wr = NewRetry
    /\ IdleScrape

\* the clock advances by one tick
Tick ==
    /\ now < MaxClock
    /\ now' = now + 1
    /\ UNCHANGED <<retryVars, scrapeVars, instance, rmsCache, obsTagCache, getter, cleaner>>

\* rmsCacheType.Set
RmsSet ==
    /\ instance = "rms"
    /\ \E kd \in RmsSets :
         rmsCache' = MapSet(rmsCache, kd[1], [data |-> kd[2], timestamp |-> now])
    /\ UNCHANGED <<retryVars, scrapeVars, now, instance, obsTagCache, getter, cleaner>>

\* rmsCacheType.Get lines 301-304: c.m.Load(key)
RmsGetLoad ==
    /\ instance = "rms"
    /\ getter.pc = "idle"
    /\ \E k \in RmsKeys :
         getter' = IF k \in DOMAIN rmsCache
                   THEN [IdleGetter EXCEPT !.pc = "loaded", !.op = "Get", !.key = k,
                                           !.entry = rmsCache[k]]
                   ELSE [IdleGetter EXCEPT !.pc = "returned", !.op = "Get", !.key = k,
                                           !.at = now]
    /\ UNCHANGED <<retryVars, scrapeVars, now, instance, rmsCache, obsTagCache, cleaner>>

\* rmsCacheType.Get lines 305-310: the TTL test, the Delete of an expired key, the return
RmsGetCheck ==
    /\ instance = "rms"
    /\ getter.pc = "loaded"
    /\ IF RmsExpired(getter.entry, now)
       THEN /\ rmsCache' = MapDelete(rmsCache, getter.key)
            /\ getter' = [getter EXCEPT !.pc = "returned", !.at = now]
       ELSE /\ rmsCache' = rmsCache
            /\ getter' = [getter EXCEPT !.pc = "returned", !.found = TRUE,
                                        !.data = getter.entry.data, !.at = now]
    /\ UNCHANGED <<retryVars, scrapeVars, now, instance, obsTagCache, cleaner>>

\* the caller has taken the result of the lookup
GetReturn ==
    /\ getter.pc = "returned"
    /\ getter' = IdleGetter
    /\ UNCHANGED <<retryVars, scrapeVars, now, instance, rmsCache, obsTagCache, cleaner>>

\* startRmsCacheCleaner: a tick of the ticker; Clean line 321: now := time.Now()
RmsCleanStart ==
    /\ instance = "rms"
    /\ cleaner.pc = "idle"
    /\ now >= cleaner.nextTick
    /\ cleaner' = [cleaner EXCEPT !.pc = "range", !.now = now,
                                  !.todo = DOMAIN rmsCache,
                                  !.nextTick = @ + rmsCacheCleanTime]
    /\ UNCHANGED <<retryVars, scrapeVars, now, instance, rmsCache, obsTagCache, getter>>

\* Clean line 322: Range hands the callback one key and the value it loaded
RmsCleanVisit ==
    /\ instance = "rms"
    /\ cleaner.pc = "range"
    /\ IF cleaner.todo = {}
       THEN cleaner' = IdleCleaner(cleaner.nextTick)
       ELSE \E k \in cleaner.todo :
              cleaner' = IF k \in DOMAIN rmsCache
                         THEN [cleaner EXCEPT !.pc = "visit", !.key = k,
                                              !.entry = rmsCache[k],
                                              !.todo = @ \ {k}]
                         ELSE [cleaner EXCEPT !.todo = @ \ {k}]
    /\ UNCHANGED <<retryVars, scrapeVars, now, instance, rmsCache, obsTagCache, getter>>

\* Clean lines 323-328: the callback deletes the key if the value it was handed is expired
RmsCleanEntry ==
    /\ instance = "rms"
    /\ cleaner.pc = "visit"
    /\ rmsCache' = IF RmsExpired(cleaner.entry, cleaner.now)
                   THEN MapDelete(rmsCache, cleaner.key)
                   ELSE rmsCache
    /\ cleaner' = [cleaner EXCEPT !.pc = "range", !.key = Nil, !.entry = NoEntry]
    /\ UNCHANGED <<retryVars, scrapeVars, now, instance, obsTagCache, getter>>

\* GetBucketTags lines 51-61 (op = "GetBucketTags", prefix "bucket:") and
\* GetBucketInfo lines 106-116 (op = "GetBucketInfo", prefix "info:"):
\* Load, and the return of a fresh entry
ObsLoad(op, prefix) ==
    /\ instance = "obs"
    /\ getter.pc = "idle"
    /\ \E b \in ObsBuckets :
         LET cacheKey == prefix \o b
             hit == cacheKey \in DOMAIN obsTagCache /\ ObsFresh(obsTagCache[cacheKey], now)
             seen == IF cacheKey \in DOMAIN obsTagCache THEN obsTagCache[cacheKey]
                     ELSE NoEntry
         IN getter' = IF hit
                      THEN [IdleGetter EXCEPT !.pc = "returned", !.op = op,
                                              !.key = cacheKey, !.entry = seen,
                                              !.found = TRUE, !.data = seen.data,
                                              !.at = now]
                      ELSE [IdleGetter EXCEPT !.pc = "fetch", !.op = op,
                                              !.key = cacheKey, !.entry = seen,
                                              !.at = now]
    /\ UNCHANGED <<retryVars, scrapeVars, now, instance, rmsCache, obsTagCache, cleaner>>

GetBucketTagsLoad == ObsLoad("GetBucketTags", sBucketColon)

GetBucketInfoLoad == ObsLoad("GetBucketInfo", sInfoColon)

\* what the lookup does with the answer of the remote call: an error is
\* returned and nothing stored; a result is stored with the current time
ObsFetched(data, err) ==
    IF err # Nil
    THEN /\ getter' = [getter EXCEPT !.pc = "returned", !.err = err]
         /\ obsTagCache' = obsTagCache
    ELSE /\ getter' = [getter EXCEPT !.pc = "returned", !.data = data]
         /\ obsTagCache' = MapSet(obsTagCache, getter.key,
                                  [data |-> data, timestamp |-> now])

sFailedTags == <<"f","a","i","l","e","d"," ","t","o"," ","g","e","t"," ",
                 "b","u","c","k","e","t"," ","t","a","g","s"," ","f","o","r"," ">>
sFailedLocation == <<"f","a","i","l","e","d"," ","t","o"," ","g","e","t"," ",
                     "b","u","c","k","e","t"," ","l","o","c","a","t","i","o","n"," ",
                     "f","o","r"," ">>
sColonSpace == <<":"," ">>

\* the bucket name of a cache key of obsTagCache
BucketOfKey(key) ==
    IF HasPrefix(key, sBucketColon) THEN SubSeq(key, Len(sBucketColon) + 1, Len(key))
    ELSE SubSeq(key, Len(sInfoColon) + 1, Len(key))

\* GetBucketTags lines 65-96: GetBucketTagging answers a tag list, NoSuchTagSet/404
\* (cached as an empty map) or another error (returned, nothing cached)
GetBucketTagsFetch ==
    /\ instance = "obs"
    /\ getter.pc = "fetch" /\ getter.op = "GetBucketTags"
    /\ \/ \E tags \in RemoteTagLists : ObsFetched(TagsToMap(tags), Nil)
       \/ ObsFetched(EmptyMap, Nil)
       \/ \E e \in {eIoTimeout, eForbidden} :
            ObsFetched(EmptyMap, sFailedTags \o BucketOfKey(getter.key) \o sColonSpace \o e)
    /\ UNCHANGED <<retryVars, scrapeVars, now, instance, rmsCache, cleaner>>

\* GetBucketInfo lines 120-137: GetBucketLocation answers a location or an error
GetBucketInfoFetch ==
    /\ instance = "obs"
    /\ getter.pc = "fetch" /\ getter.op = "GetBucketInfo"
    /\ \/ \E loc \in RemoteLocations :
            ObsFetched((sBucketName :> BucketOfKey(getter.key)) @@ (sLocation :> loc), Nil)
       \/ \E e \in {eIoTimeout, eForbidden} :
            ObsFetched(EmptyMap,
                       sFailedLocation \o BucketOfKey(getter.key) \o sColonSpace \o e)
    /\ UNCHANGED <<retryVars, scrapeVars, now, instance, rmsCache, cleaner>>

\* startObsTagCacheCleaner lines 150-153: a tick; now := time.Now()
ObsCleanStart ==
    /\ instance = "obs"
    /\ cleaner.pc = "idle"
    /\ now >= cleaner.nextTick
    /\ cleaner' = [cleaner EXCEPT !.pc = "range", !.now = now,
                                  !.todo = DOMAIN obsTagCache,
                                  !.nextTick = @ + obsCacheCleanTime]
    /\ UNCHANGED <<retryVars, scrapeVars, now, instance, rmsCache, obsTagCache, getter>>

\* startObsTagCacheCleaner line 154: Range hands the callback one key and its value
ObsCleanVisit ==
    /\ instance = "obs"
    /\ cleaner.pc = "range"
    /\ IF cleaner.todo = {}
       THEN cleaner' = IdleCleaner(cleaner.nextTick)
       ELSE \E k \in cleaner.todo :
              cleaner' = IF k \in DOMAIN obsTagCache
                         THEN [cleaner EXCEPT !.pc = "visit", !.key = k,
                                              !.entry = obsTagCache[k],
                                              !.todo = @ \ {k}]
                         ELSE [cleaner EXCEPT !.todo = @ \ {k}]
    /\ UNCHANGED <<retryVars, scrapeVars, now, instance, rmsCache, obsTagCache, getter>>

\* startObsTagCacheCleaner lines 155-160: the callback deletes an expired key
ObsCleanEntry ==
    /\ instance = "obs"
    /\ cleaner.pc = "visit"
    /\ obsTagCache' = IF ObsExpired(cleaner.entry, cleaner.now)
                      THEN MapDelete(obsTagCache, cleaner.key)
                      ELSE obsTagCache
    /\ cleaner' = [cleaner EXCEPT !.pc = "range", !.key = Nil, !.entry = NoEntry]
    /\ UNCHANGED <<retryVars, scrapeVars, now, instance, rmsCache, getter>>

NextCache ==
    \/ Tick
    \/ RmsSet
    \/ RmsGetLoad
    \/ RmsGetCheck
    \/ GetReturn
    \/ RmsCleanStart
    \/ RmsCleanVisit
    \/ RmsCleanEntry
    \/ GetBucketTagsLoad
    \/ GetBucketTagsFetch
    \/ GetBucketInfoLoad
    \/ GetBucketInfoFetch
    \/ ObsCleanStart
    \/ ObsCleanVisit
    \/ ObsCleanEntry

SpecCache == InitCache /\ [][NextCache]_vars

(***************************************************************************)
(* Constants of the pipeline (internal/constants) and its message texts    *)
(***************************************************************************)
LabelNamespace == <<"n","a","m","e","s","p","a","c","e">>
LabelResourceID == <<"r","e","s","o","u","r","c","e","_","i","d">>
LabelResourceName == <<"r","e","s","o","u","r","c","e","_","n","a","m","e">>
LabelProjectID == <<"p","r","o","j","e","c","t","_","i","d">>
LabelProjectName == <<"p","r","o","j","e","c","t","_","n","a","m","e">>
LabelUnit == <<"u","n","i","t">>
ResourceIDTotal == <<"t","o","t","a","l">>
ResourceIDUnknown == <<"u","n","k","n","o","w","n">>
NamespaceECS == <<"S","Y","S",".","E","C","S">>
NamespaceAGT == <<"A","G","T",".","E","C","S">>
NamespaceBMS == <<"S","E","R","V","I","C","E",".","B","M","S">>
NamespaceAS == <<"S","Y","S",".","A","S">>
NamespaceEVS == <<"S","Y","S",".","E","V","S">>
NamespaceOBS == <<"S","Y","S",".","O","B","S">>
NamespaceSFS == <<"S","Y","S",".","S","F","S">>
NamespaceEFS == <<"S","Y","S",".","E","F","S">>
NamespaceCBR == <<"S","Y","S",".","C","B","R">>
NamespaceVPC == <<"S","Y","S",".","V","P","C">>
NamespaceELB == <<"S","Y","S",".","E","L","B">>
NamespaceDC == <<"S","Y","S",".","D","C","A","A","S">>
NamespaceNAT == <<"S","Y","S",".","N","A","T">>
NamespaceER == <<"S","Y","S",".","E","R">>
NamespaceVPN == <<"S","Y","S",".","V","P","N">>
NamespaceRDS == <<"S","Y","S",".","R","D","S">>
NamespaceDDS == <<"S","Y","S",".","D","D","S">>
NamespaceNoSQL == <<"S","Y","S",".","N","o","S","Q","L">>
NamespaceGaussDB == <<"S","Y","S",".","G","A","U","S","S","D","B">>
NamespaceGaussDBV5 == <<"S","Y","S",".","G","A","U","S","S","D","B","V","5">>
NamespaceWAF == <<"S","Y","S",".","W","A","F">>
NamespaceCFW == <<"S","Y","S",".","C","F","W">>
NamespaceDMS == <<"S","Y","S",".","D","M","S">>
NamespaceDCS == <<"S","Y","S",".","D","C","S">>
NamespaceAPIC == <<"S","Y","S",".","A","P","I","C">>
NamespaceDWS == <<"S","Y","S",".","D","W","S">>
NamespaceES == <<"S","Y","S",".","E","S">>
NamespaceDAYU == <<"S","Y","S",".","D","A","Y","U">>

\* constants.AllNamespaces
AllNamespaces ==
    <<NamespaceECS, NamespaceAGT, NamespaceBMS, NamespaceAS,
      NamespaceEVS, NamespaceOBS, NamespaceSFS, NamespaceEFS, NamespaceCBR,
      NamespaceVPC, NamespaceELB, NamespaceDC, NamespaceNAT, NamespaceER, NamespaceVPN,
      NamespaceRDS, NamespaceDDS, NamespaceNoSQL, NamespaceGaussDB, NamespaceGaussDBV5,
      NamespaceWAF, NamespaceCFW,
      NamespaceDMS, NamespaceDCS, NamespaceAPIC,
      NamespaceDWS, NamespaceES, NamespaceDAYU>>

\* constants.OBSOperations
OBSOperations ==
    <<<<"H","E","A","D","_","O","B","J","E","C","T">>,
      <<"P","U","T","_","O","B","J","E","C","T">>,
      <<"D","E","L","E","T","E","_","O","B","J","E","C","T">>,
      <<"G","E","T","_","O","B","J","E","C","T">>,
      <<"P","U","T","_","P","A","R","T">>,
      <<"P","O","S","T","_","U","P","L","O","A","D","_","I","N","I","T">>,
      <<"P","O","S","T","_","U","P","L","O","A","D","_","C","O","M","P","L","E","T","E">>,
      <<"L","I","S","T","_","O","B","J","E","C","T","S">>,
      <<"D","E","L","E","T","E","_","O","B","J","E","C","T","S">>,
      <<"C","O","P","Y","_","O","B","J","E","C","T">>,
      <<"H","E","A","D","_","B","U","C","K","E","T">>,
      <<"L","I","S","T","_","B","U","C","K","E","T","_","O","B","J","E","C","T","S">>,
      <<"L","I","S","T","_","B","U","C","K","E","T","_","U","P","L","O","A","D","S">>,
      <<"G","E","T","_","B","U","C","K","E","T","_","L","O","C","A","T","I","O","N">>,
      <<"G","E","T","_","B","U","C","K","E","T","_","P","O","L","I","C","Y">>,
      <<"P","U","T","_","B","U","C","K","E","T","_","P","O","L","I","C","Y">>,
      <<"D","E","L","E","T","E","_","B","U","C","K","E","T","_","P","O","L","I","C","Y">>,
      <<"G","E","T","_","B","U","C","K","E","T","_","A","C","L">>,
      <<"P","U","T","_","B","U","C","K","E","T","_","A","C","L">>>>

\* label keys, prefixes and message texts of metrics.go, rms and evs clients
sTenantId == <<"t","e","n","a","n","t","_","i","d">>
sDomainId == <<"d","o","m","a","i","n","_","i","d">>
sUserId == <<"u","s","e","r","_","i","d">>
sUnderscoreId == <<"_","i","d">>
sDomainNameKey == <<"d","o","m","a","i","n","_","n","a","m","e">>
sTags == <<"t","a","g","s">>
sTagUnderscore == <<"t","a","g","_">>
sScope == <<"s","c","o","p","e">>
sOperationKey == <<"o","p","e","r","a","t","i","o","n">>
sApiName == <<"a","p","i","_","n","a","m","e">>
sDiskName == <<"d","i","s","k","_","n","a","m","e">>
sObsService == <<"o","b","s","_","s","e","r","v","i","c","e">>
sDevSlash == <<"/","d","e","v","/">>
sEVS == <<"E","V","S">>
sIdUnderscore == <<"i","d","_">>
sListMetricsAfterRetries ==
    <<"L","i","s","t","M","e","t","r","i","c","s"," ","e","r","r","o","r"," ",
      "a","f","t","e","r"," ","r","e","t","r","i","e","s",":"," ">>
sBatchAfterRetries ==
    <<"B","a","t","c","h","L","i","s","t","M","e","t","r","i","c","D","a","t",
      "a"," ","e","r","r","o","r"," ","a","f","t","e","r"," ","r","e","t","r",
      "i","e","s",":"," ">>
sFetchMetricsFor ==
    <<"f","e","t","c","h"," ","m","e","t","r","i","c","s"," ","f","o","r"," ",
      "n","a","m","e","s","p","a","c","e"," ">>
sListMetricsFor ==
    <<"l","i","s","t"," ","m","e","t","r","i","c","s"," ","f","o","r"," ","n",
      "a","m","e","s","p","a","c","e"," ">>
sFetchTimeSeries ==
    <<"f","e","t","c","h"," ","t","i","m","e"," ","s","e","r","i","e","s"," ",
      "d","a","t","a">>
sBatchListMetricData ==
    <<"b","a","t","c","h"," ","l","i","s","t"," ","m","e","t","r","i","c"," ",
      "d","a","t","a">>
sGetRmsInfoFor ==
    <<"g","e","t"," ","R","M","S"," ","r","e","s","o","u","r","c","e"," ","i",
      "n","f","o"," ","f","o","r"," ">>
sRmsLookupFailedFor ==
    <<"R","M","S"," ","l","o","o","k","u","p"," ","f","a","i","l","e","d"," ",
      "f","o","r"," ">>
sResourceSpace == <<"r","e","s","o","u","r","c","e"," ">>
sNotFound == <<" ","n","o","t"," ","f","o","u","n","d">>
sFailedListVolumes ==
    <<"f","a","i","l","e","d"," ","t","o"," ","l","i","s","t"," ","E","V","S",
      " ","v","o","l","u","m","e","s",":"," ">>

\* names and values of the remote services the scrape is run against
sCpuUtil == <<"c","p","u","_","u","t","i","l">>
sIdCpuUtil == <<"i","d","_","c","p","u","_","u","t","i","l">>
sDiskRead == <<"d","i","s","k","_","r","e","a","d">>
sRequestCount == <<"r","e","q","u","e","s","t","_","c","o","u","n","t">>
sInstanceId == <<"i","n","s","t","a","n","c","e","_","i","d">>
sVm1Padded == <<" ","v","m","-","1">>
sVm1Vda == <<"v","m","-","1","-","v","d","a">>
sVol1 == <<"v","o","l","-","1">>
sData == <<"d","a","t","a">>
sDevVda == <<"/","d","e","v","/","v","d","a">>
sGetObject == <<"G","E","T","_","O","B","J","E","C","T">>
sPercent == <<"%">>
sCount == <<"c","o","u","n","t">>
sSysFoo == <<"S","Y","S",".","F","O","O">>
sProjectP1 == <<"e","u","-","d","e","_","p","1">>
sProjectIdP1 == <<"p","i","d","-","1">>
sDomainD1 == <<"d","o","m","-","1">>
sMarker1 == <<"m","1">>
sNsExample == <<"N","S",".","E","X","A","M","P","L","E">>
sR == <<"r">>
sT1 == <<"t","1">>
sR429 == <<"r","-","4","2","9">>
sX == <<"x">>
s429X == <<"4","2","9","-","x">>
sLbaasInstanceId ==
    <<"l","b","a","a","s","_","i","n","s","t","a","n","c","e","_","i","d">>
sLbaasListenerId ==
    <<"l","b","a","a","s","_","l","i","s","t","e","n","e","r","_","i","d">>
sLb1 == <<"l","b","-","1">>
sLs1 == <<"l","s","-","1">>
sCps == <<"m","1","_","c","p","s">>
sActConn == <<"m","2","_","a","c","t","_","c","o","n","n">>
sVm1Vdb == <<"v","m","-","1","-","v","d","b">>
sVm1Vdc == <<"v","m","-","1","-","v","d","c">>
sAbc == <<"a","b","c">>
sAbcDash == <<"a","b","c","-">>
sDashAbc == <<"-","a","b","c">>
sVol2 == <<"v","o","l","-","2">>
sDevVdb == <<"/","d","e","v","/","v","d","b">>

(***************************************************************************)
(* Namespaces, metric names and labels (part_008, metrics.go)              *)
(***************************************************************************)
\* strings.LastIndex(s, c) for a one-character c: 0-based, -1 when c is absent
LastIndex(s, c) ==
    IF \E i \in 1..Len(s) : s[i] = c
    THEN (CHOOSE i \in 1..Len(s) : s[i] = c /\ \A j \in (i + 1)..Len(s) : s[j] # c) - 1
    ELSE -1

\* strings.TrimSpace
RECURSIVE TrimSpace(_)
TrimSpace(s) ==
    IF s = <<>> THEN s
    ELSE IF Head(s) = " " THEN TrimSpace(Tail(s))
    ELSE IF s[Len(s)] = " " THEN TrimSpace(SubSeq(s, 1, Len(s) - 1))
    ELSE s

\* isValidNamespace
isValidNamespace(namespace) ==
    \E i \in 1..Len(AllNamespaces) : AllNamespaces[i] = namespace

\* NewCloudEyeCollector without the test of line 24
NewCloudEyeCollector_KeepAll(requested) == requested

\* NewCloudEyeCollector: the requested namespaces that are supported, in order
NewCloudEyeCollector(requested) == SelectSeq(requested, isValidNamespace)

\* createMetricName: the part of the namespace after its last ".", lower-cased,
\* "_", the lower-cased metric name
createMetricName(namespace, metricName) ==
    LET service == ToLower(SubSeq(namespace, LastIndex(namespace, ".") + 2,
                                  Len(namespace)))
    IN service \o <<"_">> \o ToLower(metricName)

\* getValueOrDefault
getValueOrDefault(value, defaultValue) == IF value = <<>> THEN defaultValue ELSE value

\* isConstantLabel
isConstantLabel(key) == key \in {LabelResourceID, LabelResourceName, LabelUnit}

\* shouldSkipMetric without the switch on the namespace
shouldSkipMetric_AnyNamespace(metricName, namespace) ==
    HasPrefix(metricName, sIdUnderscore)

\* shouldSkipMetric
shouldSkipMetric(metricName, namespace) ==
    namespace = NamespaceAGT /\ HasPrefix(metricName, sIdUnderscore)

\* safeUnit: the unit is a *string, Nil when the pointer is nil
safeUnit(u) == IF u = Nil THEN <<>> ELSE u

\* the value of the first dimension whose lower-cased name is name, "" if none
RECURSIVE DimensionValue(_, _)
DimensionValue(dims, name) ==
    IF dims = <<>> THEN <<>>
    ELSE IF ToLower(Head(dims).Name) = name THEN Head(dims).Value
    ELSE DimensionValue(Tail(dims), name)

\* getBucketNameFromDimensions
getBucketNameFromDimensions(dims) == DimensionValue(dims, sBucketName)

\* getAPINameFromDimensions
getAPINameFromDimensions(dims) == DimensionValue(dims, sApiName)

\* isOBSOperationName
isOBSOperationName(value) ==
    \E i \in 1..Len(OBSOperations) : OBSOperations[i] = value

\* shouldSkipRMSLookup
shouldSkipRMSLookup_NoOperationTest(namespace, resourceID) ==
    \/ resourceID = <<>>
    \/ resourceID = ResourceIDUnknown

shouldSkipRMSLookup(namespace, resourceID) ==
    \/ resourceID = <<>>
    \/ resourceID = ResourceIDUnknown
    \/ namespace = NamespaceOBS /\ isOBSOperationName(resourceID)

\* shouldEnrichWithRMS
shouldEnrichWithRMS(cl, resourceID, namespace) ==
    /\ cl.RMS
    /\ resourceID # <<>>
    /\ resourceID # ResourceIDUnknown
    /\ ~shouldSkipRMSLookup(namespace, resourceID)

\* LabelBuilder.AddDimensions: lower-cased names, trimmed values, later ones winning
RECURSIVE AddDimensions(_, _)
AddDimensions(labels, dims) ==
    IF dims = <<>> THEN labels
    ELSE AddDimensions(MapSet(labels, ToLower(Head(dims).Name),
                              TrimSpace(Head(dims).Value)), Tail(dims))

MetaKeys == {sTenantId, LabelProjectID, sDomainId, sUserId}

\* findResourceID: the values it may return.  It returns the first match of a
\* range over the map, whose order Go leaves unspecified.
findResourceID_NoIdPriority(labels) ==
    LET usable(k) == labels[k] # ResourceIDUnknown /\ labels[k] # <<>>
        any == {labels[k] : k \in {x \in DOMAIN labels :
                   x \notin MetaKeys \cup {LabelNamespace} /\ usable(x)}}
    IN IF any # {} THEN any ELSE {<<>>}

findResourceID(labels) ==
    LET usable(k) == labels[k] # ResourceIDUnknown /\ labels[k] # <<>>
        ids == {labels[k] : k \in {x \in DOMAIN labels :
                   HasSuffix(x, sUnderscoreId) /\ x \notin MetaKeys /\ usable(x)}}
        any == {labels[k] : k \in {x \in DOMAIN labels :
                   x \notin MetaKeys \cup {LabelNamespace} /\ usable(x)}}
    IN IF ids # {} THEN ids ELSE IF any # {} THEN any ELSE {<<>>}

\* handleSpecialResourceID
handleSpecialResourceID(labels, m, namespace) ==
    LET bucketName == getBucketNameFromDimensions(m.Dimensions)
        apiName == getAPINameFromDimensions(m.Dimensions)
    IN IF namespace = NamespaceOBS /\ bucketName = <<>> /\ apiName = <<>>
       THEN [labels |-> MapSet(MapSet(MapSet(labels, LabelResourceID, ResourceIDTotal),
                                      LabelResourceName, ResourceIDTotal),
                               sScope, ResourceIDTotal),
             id |-> ResourceIDTotal]
       ELSE IF namespace = NamespaceOBS /\ apiName # <<>>
       THEN [labels |-> MapSet(labels, sOperationKey, apiName), id |-> apiName]
       ELSE [labels |-> labels, id |-> <<>>]

\* extractLabelsAndResourceID, found being what findResourceID returned
extractLabelsAndResourceID(m, namespace, found) ==
    LET built == AddDimensions((LabelNamespace :> namespace), m.Dimensions)
        special == IF found = <<>> THEN handleSpecialResourceID(built, m, namespace)
                   ELSE [labels |-> built, id |-> found]
        resourceID == IF special.id = <<>> THEN ResourceIDUnknown ELSE special.id
    IN [labels |-> MapSet(special.labels, LabelResourceID, resourceID),
        resourceID |-> resourceID]

\* createSingleExport without lines 595-597
createSingleExport_NoUnitLabel(metricName, labels, unit, value, timestamp) ==
    <<[MetricName |-> metricName, Labels |-> labels,
       Value |-> value, Unit |-> unit, Timestamp |-> timestamp]>>

\* cloneMap and createSingleExport
createSingleExport(metricName, labels, unit, value, timestamp) ==
    <<[MetricName |-> metricName,
       Labels |-> IF unit # <<>> THEN MapSet(labels, LabelUnit, unit) ELSE labels,
       Value |-> value, Unit |-> unit, Timestamp |-> timestamp]>>

\* convertDatapointsToExports lines 580-590: one record per sample; Average is
\* a *float64, <<>> when nil and <<v>> otherwise; a time.Time is written as its
\* milliseconds since the epoch, which is what dp.Timestamp counts
RECURSIVE ExportsOfDatapoints(_, _, _, _)
ExportsOfDatapoints(metricName, datapoints, labels, unit) ==
    IF datapoints = <<>> THEN <<>>
    ELSE LET dp == Head(datapoints)
             value == IF dp.Average = <<>> THEN 0 ELSE dp.Average[1]
         IN createSingleExport(metricName, labels, unit, value, dp.Timestamp)
              \o ExportsOfDatapoints(metricName, Tail(datapoints), labels, unit)

\* convertDatapointsToExports without lines 577-579
convertDatapointsToExports_NoPlaceholder(m, labels, unit, t) ==
    ExportsOfDatapoints(m.MetricName, m.Datapoints, labels, unit)

\* convertDatapointsToExports, t being time.Now()
convertDatapointsToExports(m, labels, unit, t) ==
    IF Len(m.Datapoints) = 0
    THEN createSingleExport(m.MetricName, labels, unit, 0, t)
    ELSE ExportsOfDatapoints(m.MetricName, m.Datapoints, labels, unit)

\* processMetrics lines 257-261, without the resource_name default
localResultsOf_NoDefault(m, labels, t) ==
    convertDatapointsToExports(m, labels, safeUnit(m.Unit), t)

\* processMetrics lines 257-261: the resource_name default and the records of
\* one data point from its final labels
localResultsOf(m, labels, t) ==
    LET named == IF LabelResourceName \in DOMAIN labels THEN labels
                 ELSE MapSet(labels, LabelResourceName, ResourceIDUnknown)
    IN convertDatapointsToExports(m, named, safeUnit(m.Unit), t)

\* buildBatchMetrics without the test of the namespace
buildBatchMetrics_NoNamespaceTest(metrics) ==
    LET valid(m) == ~(m.MetricName = <<>> \/ Len(m.Dimensions) = 0)
        kept == SelectSeq(metrics, valid)
    IN [i \in 1..Len(kept) |-> [MetricName |-> kept[i].MetricName,
                                Namespace |-> kept[i].Namespace,
                                Dimensions |-> kept[i].Dimensions]]

\* buildBatchMetrics
buildBatchMetrics(metrics) ==
    LET valid(m) == ~(m.MetricName = <<>> \/ m.Namespace = <<>> \/ Len(m.Dimensions) = 0)
        kept == SelectSeq(metrics, valid)
    IN [i \in 1..Len(kept) |-> [MetricName |-> kept[i].MetricName,
                                Namespace |-> kept[i].Namespace,
                                Dimensions |-> kept[i].Dimensions]]

sDash == <<"-">>

\* Collect line 76: the key of seenMetrics
labelKey(metricName, resourceID, resourceName, unit, rawName) ==
    metricName \o sDash \o resourceID \o sDash \o resourceName \o sDash \o unit
        \o sDash \o rawName

\* Collect lines 55-89 without the test of seenMetrics: every record is sent
RECURSIVE CollectRange_NoDedup(_, _, _)
CollectRange_NoDedup(namespace, metricData, seenMetrics) ==
    IF metricData = <<>> THEN <<>>
    ELSE LET m == Head(metricData)
             resourceID == getValueOrDefault(MapGet(m.Labels, LabelResourceID),
                                             ResourceIDUnknown)
             resourceName == getValueOrDefault(MapGet(m.Labels, LabelResourceName),
                                               ResourceIDUnknown)
             unit == getValueOrDefault(m.Unit, ResourceIDUnknown)
             own == [k \in {x \in DOMAIN m.Labels : ~isConstantLabel(x)} |-> m.Labels[k]]
         IN <<[name |-> createMetricName(namespace, m.MetricName),
               labels |-> (LabelResourceID :> resourceID)
                            @@ (LabelResourceName :> resourceName)
                            @@ (LabelUnit :> unit) @@ own,
               value |-> m.Value]>>
                \o CollectRange_NoDedup(namespace, Tail(metricData), seenMetrics)

\* Collect lines 55-89 on the records metricData of one namespace, with the
\* keys seen so far: the metrics sent on the channel, in order
RECURSIVE CollectRange(_, _, _)
CollectRange(namespace, metricData, seenMetrics) ==
    IF metricData = <<>> THEN <<>>
    ELSE LET m == Head(metricData)
             resourceID == getValueOrDefault(MapGet(m.Labels, LabelResourceID),
                                             ResourceIDUnknown)
             resourceName == getValueOrDefault(MapGet(m.Labels, LabelResourceName),
                                               ResourceIDUnknown)
             unit == getValueOrDefault(m.Unit, ResourceIDUnknown)
             metricName == createMetricName(namespace, m.MetricName)
             key == labelKey(metricName, resourceID, resourceName, unit, m.MetricName)
             own == [k \in {x \in DOMAIN m.Labels : ~isConstantLabel(x)} |-> m.Labels[k]]
             metric == [name |-> metricName,
                        labels |-> (LabelResourceID :> resourceID)
                                     @@ (LabelResourceName :> resourceName)
                                     @@ (LabelUnit :> unit) @@ own,
                        value |-> m.Value]
         IN IF key \in seenMetrics
            THEN CollectRange(namespace, Tail(metricData), seenMetrics)
            ELSE <<metric>> \o CollectRange(namespace, Tail(metricData),
                                            seenMetrics \cup {key})

(***************************************************************************)
(* Enrichment: block storage, object storage, inventory                    *)
(***************************************************************************)
\* handleEVSIfNeeded lines 491-497: the namespace names EVS and the resource id
\* is "<vm id>-<device>"
evsLookupNeeded(namespace, resourceID) ==
    LET lastDash == LastIndex(resourceID, "-")
    IN Contains(namespace, sEVS) /\ ~(lastDash <= 0 \/ lastDash >= Len(resourceID) - 1)

\* Clients.ListVolumes on the answer of the block storage service
ListVolumes(remote) ==
    IF remote.err # Nil
    THEN [volumes |-> <<>>, err |-> sFailedListVolumes \o remote.err]
    ELSE [volumes |-> remote.volumes, err |-> Nil]

\* lookupEVSID lines 518-526: the first volume attached to vmID as devicePath
RECURSIVE FindVolume(_, _, _)
FindVolume(volumes, vmID, devicePath) ==
    IF volumes = <<>> THEN [id |-> <<>>, name |-> <<>>]
    ELSE IF \E a \in 1..Len(Head(volumes).Attachments) :
                /\ Head(volumes).Attachments[a].ServerId = vmID
                /\ Head(volumes).Attachments[a].Device = devicePath
         THEN [id |-> Head(volumes).Id, name |-> Head(volumes).Name]
         ELSE FindVolume(Tail(volumes), vmID, devicePath)

\* lookupEVSID, listed being what ListVolumes returned
lookupEVSID(listed, vmID, device) ==
    IF listed.err # Nil THEN [id |-> <<>>, name |-> <<>>]
    ELSE FindVolume(listed.volumes, vmID, sDevSlash \o device)

\* handleEVSIfNeeded lines 498-509, listed being what ListVolumes returned
handleEVSIfNeeded(labels, resourceID, listed) ==
    LET lastDash == LastIndex(resourceID, "-")
        vmID == SubSeq(resourceID, 1, lastDash)
        device == SubSeq(resourceID, lastDash + 2, Len(resourceID))
        disk == lookupEVSID(listed, vmID, device)
        withID == MapSet(labels, LabelResourceID, disk.id)
    IN IF disk.id # <<>>
       THEN [labels |-> IF disk.name # <<>> THEN MapSet(withID, sDiskName, disk.name)
                        ELSE withID,
             resourceID |-> disk.id]
       ELSE [labels |-> labels, resourceID |-> resourceID]

\* handleOBSIfNeeded lines 539-544: a data point of the service, not of a bucket
obsServiceLabels(labels) ==
    IF sTenantId \in DOMAIN labels /\ MapGet(labels, LabelResourceID) = labels[sTenantId]
    THEN MapSet(MapSet(labels, LabelResourceName, sObsService),
                LabelResourceID, sObsService)
    ELSE MapSet(labels, LabelResourceName, MapGet(labels, LabelResourceID))

\* enrichOBSBucketInfo lines 554-556: labels["tag_"+k] = v
tagLabels(tags) ==
    [x \in {sTagUnderscore \o k : k \in DOMAIN tags} |->
        tags[SubSeq(x, Len(sTagUnderscore) + 1, Len(x))]]

\* buildCacheKey
buildCacheKey(resourceID, resourceName) ==
    IF resourceID # <<>> THEN sIdColon \o resourceID
    ELSE IF resourceName # <<>> THEN sNameColon \o resourceName
    ELSE <<>>

\* a nil map[string]string
NilMap == (Nil :> Nil)

\* structToStringMap and mergeTags on a ResourceEntity with an id and a name
structToStringMap(res) ==
    MapMerge((sId :> res.Id) @@ (sName :> res.Name), tagLabels(res.Tags))

\* matchesResource
matchesResource(res, resourceID, resourceName) ==
    \/ resourceID # <<>> /\ res.Id = resourceID
    \/ resourceName # <<>> /\ res.Name = resourceName

\* lookupResource on the answer of the inventory to ListAllResources (one page)
lookupResource(resourceID, resourceName, remote) ==
    LET hits == SelectSeq(remote.resources,
                          LAMBDA res : matchesResource(res, resourceID, resourceName))
    IN IF remote.err # Nil
       THEN [result |-> NilMap,
             err |-> sRmsLookupFailedFor \o resourceID \o resourceName
                       \o sColonSpace \o remote.err]
       ELSE IF hits # <<>>
       THEN [result |-> structToStringMap(Head(hits)), err |-> Nil]
       ELSE [result |-> NilMap,
             err |-> sResourceSpace \o resourceID \o resourceName \o sNotFound]

\* cacheResource at time t: the map of the cache afterwards
cacheResource_SearchKeyOnly(cache, info, cacheKey, t) ==
    MapSet(cache, cacheKey, [data |-> info, timestamp |-> t])

cacheResource(cache, info, cacheKey, t) ==
    LET entry == [data |-> info, timestamp |-> t]
        id == MapGet(info, sId)
        name == MapGet(info, sName)
        c1 == MapSet(cache, cacheKey, entry)
        c2 == IF id # <<>> /\ cacheKey # sIdColon \o id
              THEN MapSet(c1, sIdColon \o id, entry) ELSE c1
    IN IF name # <<>> /\ cacheKey # sNameColon \o name
       THEN MapSet(c2, sNameColon \o name, entry) ELSE c2

\* applyRMSEnrichment lines 477-483: the non-empty tag_ entries of the resource
rmsTagLabels(rmsResource) ==
    [k \in {x \in DOMAIN rmsResource :
              HasPrefix(x, sTagUnderscore) /\ rmsResource[x] # <<>>} |-> rmsResource[k]]

\* applyRMSEnrichment
applyRMSEnrichment_NameGatesTags(labels, rmsResource, cl, c) ==
    LET on(flag) == flag \in c.ExportRMSLabels
        l1 == IF ~on(LabelResourceName) THEN labels
              ELSE IF MapGet(rmsResource, sName) # <<>>
              THEN MapSet(labels, LabelResourceName, rmsResource[sName])
              ELSE labels
        l2 == IF on(LabelProjectID) THEN MapSet(l1, LabelProjectID, cl.ProjectID) ELSE l1
        l3 == IF on(LabelProjectName) THEN MapSet(l2, LabelProjectName, cl.ProjectName)
              ELSE l2
        l4 == IF on(sDomainNameKey) THEN MapSet(l3, sDomainNameKey, c.DomainName) ELSE l3
        l5 == IF on(LabelResourceName) THEN MapMerge(l4, rmsTagLabels(rmsResource)) ELSE l4
    IN IF MapGet(rmsResource, sId) # <<>>
       THEN MapSet(l5, LabelResourceID, rmsResource[sId]) ELSE l5

applyRMSEnrichment(labels, rmsResource, cl, c) ==
    LET on(flag) == flag \in c.ExportRMSLabels
        l1 == IF ~on(LabelResourceName) THEN labels
              ELSE IF MapGet(rmsResource, sName) # <<>>
              THEN MapSet(labels, LabelResourceName, rmsResource[sName])
              ELSE IF MapGet(rmsResource, LabelResourceName) # <<>>
              THEN MapSet(labels, LabelResourceName, rmsResource[LabelResourceName])
              ELSE labels
        l2 == IF on(LabelProjectID) THEN MapSet(l1, LabelProjectID, cl.ProjectID) ELSE l1
        l3 == IF on(LabelProjectName) THEN MapSet(l2, LabelProjectName, cl.ProjectName)
              ELSE l2
        l4 == IF on(sDomainNameKey) THEN MapSet(l3, sDomainNameKey, c.DomainName) ELSE l3
        l5 == IF on(sTags) THEN MapMerge(l4, rmsTagLabels(rmsResource)) ELSE l4
    IN IF MapGet(rmsResource, sId) # <<>>
       THEN MapSet(l5, LabelResourceID, rmsResource[sId]) ELSE l5

(***************************************************************************)
(* The remote services one scrape is run against                           *)
(***************************************************************************)
Dimension(name, value) == [Name |-> name, Value |-> value]

MetricInfoList(namespace, metricName, dims, unit) ==
    [Namespace |-> namespace, MetricName |-> metricName, Dimensions |-> dims,
     Unit |-> unit]

\* the dimension of a data point of the block storage namespace: disk_name is
\* "<server id>-<device>" of an attached volume, of none, or not of that form
EvsDimensions ==
    {Dimension(sDiskName, d) :
        d \in {sVm1Vda, sVm1Vdb, sVm1Vdc, sAbc, sAbcDash, sDashAbc}}
        \cup {Dimension(sInstanceId, sVm1Vdb)}

\* the dimensions of a data point of the scaling namespace: an "_id" key
\* beside another key; a meta key beside another key; an "_id" key of value
\* "unknown" beside another key; a meta key only; no usable value
AsDimensions ==
    {<<Dimension(sDiskName, sAbc), Dimension(sInstanceId, sVm1)>>,
     <<Dimension(sTenantId, sT1), Dimension(sDiskName, sAbc)>>,
     <<Dimension(sInstanceId, ResourceIDUnknown), Dimension(sDiskName, sAbc)>>,
     <<Dimension(sTenantId, sT1)>>,
     <<Dimension(sInstanceId, <<>>), Dimension(sDiskName, ResourceIDUnknown)>>}

\* ListMetrics: the pages of the catalog of a namespace, for each catalog the
\* service may hold; Marker "" ends it
CatalogPages(namespace) ==
    IF namespace = NamespaceECS
    THEN {<<[Metrics |-> <<MetricInfoList(NamespaceECS, sCpuUtil,
                             <<Dimension(sInstanceId, sVm1)>>, sPercent)>>,
            Marker |-> sMarker1],
           [Metrics |-> <<MetricInfoList(NamespaceECS, sCpuUtil,
                             <<Dimension(sInstanceId, sVm1Padded)>>, sPercent)>>,
            Marker |-> <<>>]>>}
    ELSE IF namespace = NamespaceAGT
    THEN {<<[Metrics |-> <<MetricInfoList(NamespaceAGT, sCpuUtil,
                             <<Dimension(sInstanceId, sVm1)>>, sPercent),
                          MetricInfoList(NamespaceAGT, sIdCpuUtil,
                             <<Dimension(sInstanceId, sVm1)>>, sPercent)>>,
            Marker |-> <<>>]>>}
    ELSE IF namespace = NamespaceEVS
    THEN {<<[Metrics |-> <<MetricInfoList(NamespaceEVS, sDiskRead, <<d>>, Nil)>>,
             Marker |-> <<>>]>> : d \in EvsDimensions}
    ELSE IF namespace = NamespaceOBS
    THEN {<<[Metrics |-> <<MetricInfoList(NamespaceOBS, sRequestCount,
                             <<Dimension(sBucketName, sB1)>>, sCount),
                          MetricInfoList(NamespaceOBS, sRequestCount,
                             <<Dimension(sApiName, sGetObject)>>, sCount)>>,
            Marker |-> <<>>]>>,
          <<[Metrics |-> <<MetricInfoList(NamespaceOBS, sRequestCount,
                             <<Dimension(sTenantId, sT1)>>, sCount)>>,
            Marker |-> <<>>]>>}
    ELSE IF namespace = NamespaceAS
    THEN {<<[Metrics |-> <<MetricInfoList(NamespaceAS, sCpuUtil, dims, sPercent)>>,
             Marker |-> <<>>]>> : dims \in AsDimensions}
          \cup {<<[Metrics |-> <<MetricInfoList(NamespaceAS, sIdCpuUtil,
                                    <<Dimension(sInstanceId, sVm1)>>, sPercent)>>,
                   Marker |-> <<>>]>>}
    ELSE IF namespace = NamespaceELB
    THEN {<<[Metrics |-> <<MetricInfoList(NamespaceELB, sCps,
                              <<Dimension(sLbaasInstanceId, sLb1),
                                Dimension(sLbaasListenerId, sLs1)>>, sCount),
                           MetricInfoList(<<>>, sCps,
                              <<Dimension(sLbaasInstanceId, sLb1)>>, sCount),
                           MetricInfoList(NamespaceELB, sActConn,
                              <<Dimension(sLbaasInstanceId, sLb1),
                                Dimension(sLbaasListenerId, sLs1)>>, sCount)>>,
             Marker |-> <<>>]>>}
    ELSE IF namespace = NamespaceVPC
    THEN {<<[Metrics |-> <<MetricInfoList(NamespaceVPC, sRequestCount, <<>>, sCount),
                           MetricInfoList(NamespaceVPC, <<>>,
                              <<Dimension(sInstanceId, sVm1)>>, sCount)>>,
             Marker |-> <<>>]>>}
    ELSE IF namespace = NamespaceDCS
    THEN {<<[Metrics |-> <<MetricInfoList(NamespaceDCS, sCpuUtil,
                              <<Dimension(sInstanceId, sR429)>>, sPercent),
                           MetricInfoList(NamespaceDCS, sCpuUtil,
                              <<Dimension(sInstanceId, sR)>>, sPercent)>>,
             Marker |-> <<>>]>>}
    ELSE IF namespace = NamespaceRDS
    THEN {<<[Metrics |-> <<>>, Marker |-> sMarker1],
            [Metrics |-> <<>>, Marker |-> <<>>]>>}
    ELSE IF namespace = sNsExample
    THEN {<<[Metrics |-> <<MetricInfoList(sNsExample, sCpuUtil,
                              <<Dimension(sInstanceId, sVm1)>>, sPercent)>>,
             Marker |-> <<>>]>>}
    ELSE {<<[Metrics |-> <<>>, Marker |-> <<>>]>>}

Datapoint(average, timestamp) == [Average |-> <<average>>, Timestamp |-> timestamp]

\* BatchListMetricData: the samples and the unit of one requested metric; the
\* averages are written in tenths (425 is 42.5)
BatchMetricData(req) ==
    [Namespace |-> req.Namespace, MetricName |-> req.MetricName,
     Dimensions |-> req.Dimensions,
     Datapoints |->
        IF req.Namespace = NamespaceECS
        THEN IF req.Dimensions[1].Value = sVm1
             THEN <<Datapoint(10, 1), Datapoint(11, 2)>> ELSE <<Datapoint(20, 2)>>
        ELSE IF req.Namespace = NamespaceAGT THEN <<Datapoint(30, 2)>>
        ELSE IF req.Namespace = sNsExample THEN <<Datapoint(425, 3)>>
        ELSE IF req.Namespace = NamespaceOBS
        THEN <<[Average |-> <<>>, Timestamp |-> 2]>>
        ELSE <<>>,
     Unit |-> IF req.Namespace \in {NamespaceECS, NamespaceAGT, NamespaceDCS, sNsExample}
              THEN sPercent
              ELSE IF req.Namespace \in {NamespaceOBS, NamespaceELB} THEN sCount
              ELSE Nil]

\* ListVolumes of the block storage service
Volumes ==
    <<[Id |-> sVol1, Name |-> sData,
       Attachments |-> <<[ServerId |-> sVm1, Device |-> sDevVda]>>],
      [Id |-> sVol2, Name |-> <<>>,
       Attachments |-> <<[ServerId |-> sVm1, Device |-> sDevVdb]>>]>>

\* the resources of the inventory
Inventory ==
    <<[Id |-> sVm1, Name |-> sWeb, Tags |-> (sEnv :> sProd)],
      [Id |-> sVol1, Name |-> sData, Tags |-> EmptyMap],
      [Id |-> sR429, Name |-> sX, Tags |-> EmptyMap],
      [Id |-> sR, Name |-> s429X, Tags |-> EmptyMap]>>

\* the tags and the location of bucket b1
BucketTags == <<[Key |-> sEnv, Value |-> sProd]>>

\* the errors a remote call of the scrape may answer: a retryable and a fatal one
RemoteErrors == {eIoTimeout, eForbidden}

(***************************************************************************)
(* One scrape: CloudEyeCollector.Collect, ExportMetricValuesBatch and the  *)
(* goroutines of processMetrics                                            *)
(***************************************************************************)
\* the largest MaxRetries a scrape is configured with
MaxScrapeRetries == 1

\* RetryConfigFromConfig(cfg): one RetryConfig is used by every call of a scrape
ScrapeRetryConfigs ==
    {c \in RetryConfigs : /\ c.MaxRetries <= MaxScrapeRetries
                          /\ c.InitialBackoff = 1000 /\ c.MaxBackoff = 3000
                          /\ c.BackoffMultiplier = [num |-> 2, den |-> 1]}

\* the namespaces a scrape is requested for
Requests ==
    {<<NamespaceECS, NamespaceAGT>>,
     <<NamespaceRDS, NamespaceOBS, sSysFoo, NamespaceEVS>>,
     <<NamespaceVPC, NamespaceELB>>,
     <<NamespaceRDS, NamespaceDCS>>,
     <<NamespaceAS>>,
     <<NamespaceOBS>>}

\* a configured project whose name IAM does not list in the region; its id was
\* left empty by resolveProjectIDs
sProjectPx == <<"e","u","-","d","e","_","p","x">>
sErrProjectNotFound == <<"project not found in region">>

\* FetchAllProjects: the projects IAM lists for the account
AllProjects == <<[Name |-> sProjectP1, ID |-> sProjectIdP1]>>

\* validateProject: nil when the name is among the fetched projects, else an error
validateProject(projectName) ==
    IF \E k \in 1..Len(AllProjects) : AllProjects[k].Name = projectName
    THEN Nil
    ELSE sErrProjectNotFound

\* main, step 2: every configured project is validated; a failure is logged and
\* the loop continues; the configuration that step 3 reads is returned
ValidateProjects(projects) ==
    LET errs == [k \in 1..Len(projects) |-> validateProject(projects[k].Name)]
    IN projects

\* NewClientsWithEndpoints: one Clients value per project of cfg.Auth.Projects
\* (built says which of the RMS, OBS and EVS clients could be built)
NewClientsWithEndpoints(projects, built) ==
    [k \in 1..Len(projects) |->
        [RMS |-> built.RMS, OBS |-> built.OBS, EVS |-> built.EVS,
         ProjectID |-> projects[k].ID, ProjectName |-> projects[k].Name]]

\* the configured projects, the clients that could be built (RMS, OBS and EVS
\* may be nil: NewClientsWithEndpoints keeps a project whose EVS or OBS client
\* failed to initialise) and the settings
Deployments ==
    LET full == [RMS |-> TRUE, OBS |-> TRUE, EVS |-> TRUE]
        p1 == [Name |-> sProjectP1, ID |-> sProjectIdP1]
        px == [Name |-> sProjectPx, ID |-> <<>>]
    IN {[projects |-> <<p1, px>>, built |-> full,
         cfg |-> [ExportRMSLabels |-> {LabelResourceName, sTags}, DomainName |-> sDomainD1]],
        [projects |-> <<p1>>, built |-> full,
         cfg |-> [ExportRMSLabels |-> {LabelProjectID}, DomainName |-> sDomainD1]],
        [projects |-> <<p1>>, built |-> [full EXCEPT !.RMS = FALSE, !.OBS = FALSE],
         cfg |-> [ExportRMSLabels |-> {LabelResourceName, sTags}, DomainName |-> sDomainD1]],
        [projects |-> <<p1>>, built |-> [full EXCEPT !.EVS = FALSE],
         cfg |-> [ExportRMSLabels |-> {LabelResourceName, LabelProjectID, LabelProjectName,
                                       sDomainNameKey, sTags},
                  DomainName |-> sDomainD1]],
        [projects |-> <<p1>>, built |-> full,
         cfg |-> [ExportRMSLabels |-> {}, DomainName |-> sDomainD1]]}

\* main, steps 2 and 3: the project clients the handlers iterate over
projectClients(d) == NewClientsWithEndpoints(ValidateProjects(d.projects), d.built)

\* the remote call a goroutine is in, or the last one that failed: its site, how
\* often it was sent for the caller's one call, the error of the last answer,
\* and whether the caller has its outcome (over) and treats the call as failed
NoCall == [site |-> "none", sent |-> 0, err |-> Nil, over |-> FALSE, failed |-> FALSE]

\* the goroutine of Collect between two namespaces (sends: how often the
\* request of the fetch in progress, the first page of the catalog or the
\* batch query, was sent to the monitoring service)
IdleMain ==
    [pc |-> "Collect", outer |-> NewRetry, inner |-> NewRetry, page |-> 0,
     start |-> <<>>, acc |-> <<>>, metrics |-> <<>>, batchData |-> <<>>,
     call |-> NoCall, sends |-> 0]

\* processMetrics line 249: the goroutine of data point m
NewTask(m) ==
    [pc |-> "extract", m |-> m, labels |-> EmptyMap, resourceID |-> <<>>,
     retry |-> NewRetry, tagsErr |-> Nil, infoErr |-> Nil, localResults |-> <<>>,
     seen |-> <<>>,
     call |-> NoCall]

\* prometheusHandler lines 96-110: for a project client of main, a collector for
\* the requested namespaces is created and Collect is called; or ExportMetricValuesBatch is called for one
\* namespace without a collector
\* the bucket cache when the scrape begins: empty in a new process; after an
\* earlier scrape whose location fetch failed it holds the tags of the bucket
\* only, after one whose tag fetch failed the info only (the scrapes of the
\* object-storage namespace alone begin so)
ObsCachesAtStart(requested, t) ==
    IF requested # <<NamespaceOBS>> THEN {EmptyMap}
    ELSE {MapSet(EmptyMap, sBucketColon \o sB1,
                 [data |-> TagsToMap(BucketTags), timestamp |-> t]),
          MapSet(EmptyMap, sInfoColon \o sB1,
                 [data |-> (sBucketName :> sB1) @@ (sLocation :> sEuDe), timestamp |-> t])}

InitScrape ==
    /\ \E d \in Deployments :
          /\ cfg = d.cfg
          /\ \E k \in 1..Len(projectClients(d)) : client = projectClients(d)[k]
    /\ \/ /\ instance = "scrape"
          /\ namespaces \in Requests
          /\ services = NewCloudEyeCollector(namespaces)
       \/ /\ instance = "export"
          /\ namespaces = <<sNsExample>>
          /\ services = namespaces
    /\ rc \in ScrapeRetryConfigs
    /\ wr = NewRetry
    /\ now = 1
    /\ rmsCache = EmptyMap
    /\ obsTagCache \in ObsCachesAtStart(namespaces, now)
    /\ getter = IdleGetter
    /\ cleaner = IdleCleaner(rmsCacheCleanTime)
    /\ ns = 1
    /\ main = IdleMain
    /\ tasks = <<>>
    /\ results = <<>>
    /\ scraped = <<>>
    /\ published = <<>>
    /\ heap = <<>>

\* the statuses of a namespace whose catalog listing or batch fetch failed
FailedStatuses == {"defsFailed", "seriesFailed"}

\* Collect on the return of ExportMetricValuesBatch, were a failed namespace to
\* end the scrape
EndNamespace_AbortOnFailure(status, metricData, call) ==
    /\ scraped' = Append(scraped, [namespace |-> services[ns], status |-> status,
                                   metricData |-> metricData])
    /\ published' = IF instance = "scrape"
                    THEN published \o CollectRange(services[ns], metricData, {})
                    ELSE published
    /\ ns' = IF status \in FailedStatuses THEN Len(services) + 1 ELSE ns + 1
    /\ main' = [IdleMain EXCEPT !.call = call]
    /\ tasks' = <<>>
    /\ results' = <<>>

\* Collect lines 52-90: ExportMetricValuesBatch has returned metricData (nil is
\* <<>>) for namespace services[ns]; its records are deduplicated and sent, and
\* the loop goes on to the next namespace
EndNamespace(status, metricData, call) ==
    /\ scraped' = Append(scraped, [namespace |-> services[ns], status |-> status,
                                   metricData |-> metricData])
    /\ published' = IF instance = "scrape"
                    THEN published \o CollectRange(services[ns], metricData, {})
                    ELSE published
    /\ ns' = ns + 1
    /\ main' = [IdleMain EXCEPT !.call = call]
    /\ tasks' = <<>>
    /\ results' = <<>>

\* validateInputs: the client is attached in every scrape
validateInputs(namespace, projectName) == namespace # <<>> /\ projectName # <<>>

\* Collect line 52 and ExportMetricValuesBatch lines 162-168: the next namespace
ExportMetricValuesBatch ==
    /\ main.pc = "Collect"
    /\ ns <= Len(services)
    /\ IF ~validateInputs(services[ns], client.ProjectName)
       THEN EndNamespace("invalid", <<>>, NoCall)
       ELSE /\ main' = [IdleMain EXCEPT !.pc = "ListMetrics", !.page = 1]
            /\ UNCHANGED <<ns, tasks, results, scraped, published>>
    /\ UNCHANGED <<retryVars, cacheVars, client, cfg, namespaces, services, heap>>

\* Collect line 91: no namespace is left
CollectReturn ==
    /\ main.pc = "Collect"
    /\ ns > Len(services)
    /\ main' = [main EXCEPT !.pc = "done"]
    /\ UNCHANGED <<retryVars, cacheVars, client, cfg, namespaces, services, heap, ns, tasks, results,
                   scraped, published>>

NoPage == [Metrics |-> <<>>, Marker |-> <<>>]

\* ListMetrics of the monitoring service for a request with Start = start: the
\* first page when start is empty, else the page after the one whose marker
\* start is
PageFrom(pages, start) ==
    IF start = <<>> THEN pages[1]
    ELSE LET after == {k \in 1..(Len(pages) - 1) : pages[k].Marker = start}
         IN IF after = {} THEN NoPage ELSE pages[(CHOOSE k \in after : TRUE) + 1]

\* the answers of the monitoring service to ListMetrics for a request
ListMetricsAnswers(namespace, start) ==
    {[resp |-> PageFrom(pages, start), err |-> Nil] : pages \in CatalogPages(namespace)}
        \cup {[resp |-> NoPage, err |-> e] : e \in RemoteErrors}

\* FetchAllMetricDefinitions lines 306-312, stopping on a missing marker only
lastPage_MarkerOnly(resp) == resp.Marker = <<>>

\* FetchAllMetricDefinitions lines 306-312: the response ends the listing when
\* it has no metrics or no marker
lastPage(resp) == resp.Metrics = <<>> \/ resp.Marker = <<>>

\* ExportMetricValuesBatch lines 174-181, were an empty catalog an error
AfterDefinitions_EmptyIsError(metrics) ==
    IF Len(metrics) = 0 THEN EndNamespace("defsFailed", <<>>, NoCall)
    ELSE /\ main' = [IdleMain EXCEPT !.pc = "BatchListMetricData",
                                     !.metrics = buildBatchMetrics(metrics)]
         /\ UNCHANGED <<ns, tasks, results, scraped, published>>

\* fetchMetricTimeSeries without lines 322-325
AfterDefinitions_SendEmptyBatch(metrics) ==
    IF Len(metrics) = 0 THEN EndNamespace("noMetrics", <<>>, NoCall)
    ELSE /\ main' = [IdleMain EXCEPT !.pc = "BatchListMetricData",
                                     !.metrics = buildBatchMetrics(metrics)]
         /\ UNCHANGED <<ns, tasks, results, scraped, published>>

\* ExportMetricValuesBatch lines 174-181 and fetchTimeSeriesData up to the first
\* BatchListMetricData: the catalog of the namespace is metrics
AfterDefinitions(metrics) ==
    IF Len(metrics) = 0 THEN EndNamespace("noMetrics", <<>>, NoCall)
    ELSE IF Len(buildBatchMetrics(metrics)) = 0
    THEN EndNamespace("noData", <<>>, NoCall)
    ELSE /\ main' = [IdleMain EXCEPT !.pc = "BatchListMetricData",
                                     !.metrics = buildBatchMetrics(metrics)]
         /\ UNCHANGED <<ns, tasks, results, scraped, published>>

\* fetchMetricDefinitions and FetchAllMetricDefinitions: one ListMetrics call is
\* answered; the inner withRetry (a page), the page loop and the outer withRetry
\* (the whole listing) go on to the next call or to the end of the listing
ListMetrics ==
    /\ main.pc = "ListMetrics"
    /\ \E remote \in ListMetricsAnswers(services[ns], main.start) :
         LET namespace == services[ns]
             inner == withRetryStep(main.inner, rc, sListMetricsFor \o namespace,
                                    [result |-> remote.resp, err |-> remote.err])
             call == [site |-> "ListMetrics", sent |-> inner.calls, err |-> remote.err,
                      over |-> inner.status # "running",
                      failed |-> inner.status = "failed"]
             acc == main.acc \o remote.resp.Metrics
             sends == IF main.page = 1 THEN main.sends + 1 ELSE main.sends
             outerOk == withRetryStep(main.outer, rc, sFetchMetricsFor \o namespace,
                                      [result |-> acc, err |-> Nil])
             outerErr == withRetryStep(main.outer, rc, sFetchMetricsFor \o namespace,
                                       [result |-> <<>>,
                                        err |-> sListMetricsAfterRetries \o inner.retErr])
         IN IF inner.status = "running"
            THEN /\ main' = [main EXCEPT !.inner = inner, !.call = call,
                                         !.sends = sends]
                 /\ UNCHANGED <<ns, tasks, results, scraped, published>>
            ELSE IF inner.status = "ok"
            THEN IF ~lastPage(remote.resp)
                 THEN /\ main' = [main EXCEPT !.inner = NewRetry, !.page = @ + 1,
                                              !.start = remote.resp.Marker,
                                              !.acc = acc, !.call = NoCall,
                                              !.sends = sends]
                      /\ UNCHANGED <<ns, tasks, results, scraped, published>>
                 ELSE AfterDefinitions(outerOk.result)
            ELSE IF outerErr.status = "running"
                 THEN /\ main' = [main EXCEPT !.outer = outerErr, !.inner = NewRetry,
                                              !.page = 1, !.start = <<>>,
                                              !.acc = <<>>, !.call = call,
                                              !.sends = sends]
                      /\ UNCHANGED <<ns, tasks, results, scraped, published>>
                 ELSE EndNamespace("defsFailed", <<>>, call)
    /\ UNCHANGED <<retryVars, cacheVars, client, cfg, namespaces, services, heap>>

\* the answers of the monitoring service to BatchListMetricData: the data of
\* the requested metrics, for one namespace also with a nameless item before
\* them; no data; an error
BatchListMetricDataAnswers(batchMetrics) ==
    LET data == [i \in 1..Len(batchMetrics) |-> BatchMetricData(batchMetrics[i])]
        unnamed == [data[1] EXCEPT !.MetricName = <<>>]
    IN {[metrics |-> data, err |-> Nil],
        [metrics |-> <<>>, err |-> Nil]}
         \cup {[metrics |-> <<unnamed>> \o data, err |-> Nil] : x \in
                   {n \in {NamespaceECS} : batchMetrics[1].Namespace = n}}
         \cup {[metrics |-> <<>>, err |-> e] : e \in RemoteErrors}

\* processMetrics lines 236-266: the data points that get a goroutine
processMetrics(namespace, batchData) ==
    LET kept == SelectSeq(batchData, LAMBDA m :
                    m.MetricName # <<>> /\ ~shouldSkipMetric(m.MetricName, namespace))
    IN [i \in 1..Len(kept) |-> NewTask(kept[i])]

\* fetchTimeSeriesData and fetchMetricTimeSeries: one BatchListMetricData call
\* is answered; then ExportMetricValuesBatch lines 182-193
BatchListMetricData ==
    /\ main.pc = "BatchListMetricData"
    /\ \E remote \in BatchListMetricDataAnswers(main.metrics) :
         LET inner == withRetryStep(main.inner, rc, sBatchListMetricData,
                                    [result |-> remote.metrics, err |-> remote.err])
             call == [site |-> "BatchListMetricData", sent |-> inner.calls,
                      err |-> remote.err, over |-> inner.status # "running",
                      failed |-> inner.status = "failed"]
             outerOk == withRetryStep(main.outer, rc, sFetchTimeSeries,
                                      [result |-> remote.metrics, err |-> Nil])
             outerErr == withRetryStep(main.outer, rc, sFetchTimeSeries,
                                       [result |-> <<>>,
                                        err |-> sBatchAfterRetries \o inner.retErr])
         IN IF inner.status = "running"
            THEN /\ main' = [main EXCEPT !.inner = inner, !.call = call,
                                         !.sends = @ + 1]
                 /\ UNCHANGED <<ns, tasks, results, scraped, published>>
            ELSE IF inner.status = "ok"
            THEN IF Len(outerOk.result) = 0
                 THEN EndNamespace("noData", <<>>, NoCall)
                 ELSE /\ main' = [IdleMain EXCEPT !.pc = "Wait",
                                                  !.batchData = outerOk.result]
                      /\ tasks' = processMetrics(services[ns], outerOk.result)
                      /\ results' = <<>>
                      /\ UNCHANGED <<ns, scraped, published>>
            ELSE IF outerErr.status = "running"
                 THEN /\ main' = [main EXCEPT !.outer = outerErr, !.inner = NewRetry,
                                              !.call = call, !.sends = @ + 1]
                      /\ UNCHANGED <<ns, tasks, results, scraped, published>>
                 ELSE EndNamespace("seriesFailed", <<>>, call)
    /\ UNCHANGED <<retryVars, cacheVars, client, cfg, namespaces, services, heap>>

\* processMetrics line 255: enrichWithRMSIfNeeded is entered
callEnrichWithRMS(t) ==
    IF shouldEnrichWithRMS(client, t.resourceID, services[ns])
    THEN [t EXCEPT !.pc = "GetResourceByID", !.retry = NewRetry]
    ELSE [t EXCEPT !.pc = "convert"]

\* processMetrics line 254: handleOBSIfNeeded up to its first lookup
callHandleOBS(t) ==
    LET bucketName == getBucketNameFromDimensions(t.m.Dimensions)
        named == [t EXCEPT !.labels = MapSet(@, sBucketName, bucketName)]
    IN IF services[ns] # NamespaceOBS THEN callEnrichWithRMS(t)
       ELSE IF bucketName = <<>>
       THEN callEnrichWithRMS([t EXCEPT !.labels = obsServiceLabels(@)])
       ELSE IF client.OBS THEN [named EXCEPT !.pc = "GetBucketTags"]
       ELSE callEnrichWithRMS(named)

\* processMetrics line 253: handleEVSIfNeeded up to its lookup
callHandleEVS(t) ==
    IF evsLookupNeeded(services[ns], t.resourceID) THEN [t EXCEPT !.pc = "ListVolumes"]
    ELSE callHandleOBS(t)

\* a step of goroutine i is taken while processMetrics waits in wg.Wait, in a
\* process that has not panicked; what it leaves unchanged, but for the caches
TaskFrame ==
    /\ main.pc = "Wait"
    /\ UNCHANGED <<retryVars, now, instance, getter, cleaner, client, cfg,
                   namespaces, services, heap, ns, main, scraped, published>>

\* processMetrics line 252: extractLabelsAndResourceID
Extract(i) ==
    /\ tasks[i].pc = "extract"
    /\ \E found \in findResourceID(AddDimensions((LabelNamespace :> services[ns]),
                                                 tasks[i].m.Dimensions)) :
         LET e == extractLabelsAndResourceID(tasks[i].m, services[ns], found)
         IN tasks' = [tasks EXCEPT ![i] = callHandleEVS([@ EXCEPT
                          !.labels = e.labels, !.resourceID = e.resourceID])]
    /\ UNCHANGED <<rmsCache, obsTagCache, results>>
    /\ TaskFrame

\* the answers of the block storage service to ListVolumes
ListVolumesAnswers ==
    {[volumes |-> Volumes, err |-> Nil]}
        \cup {[volumes |-> <<>>, err |-> e] : e \in RemoteErrors}

\* lookupEVSID line 513 and the rest of handleEVSIfNeeded: ListVolumes is
\* called once, outside withRetry.  Clients.ListVolumes line 41 calls the EVS
\* client whether it is nil or not: on a nil client the goroutine panics with
\* a nil pointer dereference, which ends the process.
LookupEVSID(i) ==
    /\ tasks[i].pc = "ListVolumes"
    /\ main.pc = "Wait"
    /\ IF ~client.EVS
       THEN /\ tasks' = [tasks EXCEPT ![i] = [@ EXCEPT !.pc = "panic"]]
            /\ main' = [main EXCEPT !.pc = "panic"]
       ELSE /\ \E remote \in ListVolumesAnswers :
                 LET listed == ListVolumes(remote)
                     h == handleEVSIfNeeded(tasks[i].labels, tasks[i].resourceID,
                                            listed)
                 IN tasks' = [tasks EXCEPT ![i] = callHandleOBS([@ EXCEPT
                                  !.labels = h.labels, !.resourceID = h.resourceID,
                                  !.call = [site |-> "ListVolumes", sent |-> 1,
                                            err |-> remote.err, over |-> TRUE,
                                            failed |-> listed.err # Nil]])]
            /\ main' = main
    /\ UNCHANGED <<retryVars, cacheVars, client, cfg, namespaces, services, heap, ns, results,
                   scraped, published>>

\* enrichOBSBucketInfo line 553, ObsClient.GetBucketTags lines 51-61: a fresh
\* entry of the cache is the answer
GetBucketTags(i) ==
    /\ tasks[i].pc = "GetBucketTags"
    /\ LET cacheKey == sBucketColon \o getBucketNameFromDimensions(tasks[i].m.Dimensions)
       IN tasks' = [tasks EXCEPT ![i] =
            IF cacheKey \in DOMAIN obsTagCache /\ ObsFresh(obsTagCache[cacheKey], now)
            THEN [@ EXCEPT !.pc = "GetBucketInfo",
                           !.labels = MapMerge(@, tagLabels(obsTagCache[cacheKey].data))]
            ELSE [@ EXCEPT !.pc = "GetBucketTagging"]]
    /\ UNCHANGED <<rmsCache, obsTagCache, results>>
    /\ TaskFrame

\* the answers of the object storage to GetBucketTagging: the tags, the error
\* NoSuchTagSet, another error
GetBucketTaggingAnswers ==
    {[tags |-> BucketTags, noTagSet |-> FALSE, err |-> Nil],
     [tags |-> <<>>, noTagSet |-> TRUE, err |-> Nil]}
        \cup {[tags |-> <<>>, noTagSet |-> FALSE, err |-> e] : e \in RemoteErrors}

\* ObsClient.GetBucketTags lines 65-96 and enrichOBSBucketInfo lines 553-560:
\* GetBucketTagging is called once, outside withRetry
GetBucketTagging(i) ==
    /\ tasks[i].pc = "GetBucketTagging"
    /\ \E remote \in GetBucketTaggingAnswers :
         LET bucketName == getBucketNameFromDimensions(tasks[i].m.Dimensions)
             tags == IF remote.noTagSet THEN EmptyMap ELSE TagsToMap(remote.tags)
         IN IF remote.err # Nil
            THEN /\ tasks' = [tasks EXCEPT ![i] = [@ EXCEPT
                        !.pc = "GetBucketInfo",
                        !.tagsErr = sFailedTags \o bucketName \o sColonSpace \o remote.err,
                        !.call = [site |-> "GetBucketTagging", sent |-> 1,
                                  err |-> remote.err, over |-> TRUE, failed |-> TRUE]]]
                 /\ obsTagCache' = obsTagCache
            ELSE /\ tasks' = [tasks EXCEPT ![i] = [@ EXCEPT
                        !.pc = "GetBucketInfo",
                        !.labels = MapMerge(@, tagLabels(tags)), !.call = NoCall]]
                 /\ obsTagCache' = MapSet(obsTagCache, sBucketColon \o bucketName,
                                          [data |-> tags, timestamp |-> now])
    /\ UNCHANGED <<rmsCache, results>>
    /\ TaskFrame

\* enrichOBSBucketInfo line 562, ObsClient.GetBucketInfo lines 106-116
GetBucketInfo(i) ==
    /\ tasks[i].pc = "GetBucketInfo"
    /\ LET cacheKey == sInfoColon \o getBucketNameFromDimensions(tasks[i].m.Dimensions)
       IN tasks' = [tasks EXCEPT ![i] =
            IF cacheKey \in DOMAIN obsTagCache /\ ObsFresh(obsTagCache[cacheKey], now)
            THEN callEnrichWithRMS([@ EXCEPT
                     !.labels = MapMerge(@, obsTagCache[cacheKey].data)])
            ELSE [@ EXCEPT !.pc = "GetBucketLocation"]]
    /\ UNCHANGED <<rmsCache, obsTagCache, results>>
    /\ TaskFrame

\* the answers of the object storage to GetBucketLocation
GetBucketLocationAnswers ==
    {[location |-> sEuDe, err |-> Nil]}
        \cup {[location |-> <<>>, err |-> e] : e \in RemoteErrors}

\* ObsClient.GetBucketInfo lines 120-137 and enrichOBSBucketInfo lines 562-570:
\* GetBucketLocation is called once, outside withRetry
GetBucketLocation(i) ==
    /\ tasks[i].pc = "GetBucketLocation"
    /\ \E remote \in GetBucketLocationAnswers :
         LET bucketName == getBucketNameFromDimensions(tasks[i].m.Dimensions)
             info == (sBucketName :> bucketName) @@ (sLocation :> remote.location)
         IN IF remote.err # Nil
            THEN /\ tasks' = [tasks EXCEPT ![i] = callEnrichWithRMS([@ EXCEPT
                        !.infoErr = sFailedLocation \o bucketName \o sColonSpace
                                      \o remote.err,
                        !.call = [site |-> "GetBucketLocation", sent |-> 1,
                                  err |-> remote.err, over |-> TRUE, failed |-> TRUE]])]
                 /\ obsTagCache' = obsTagCache
            ELSE /\ tasks' = [tasks EXCEPT ![i] = callEnrichWithRMS([@ EXCEPT
                        !.labels = MapMerge(@, info), !.call = NoCall])]
                 /\ obsTagCache' = MapSet(obsTagCache, sInfoColon \o bucketName,
                                          [data |-> info, timestamp |-> now])
    /\ UNCHANGED <<rmsCache, results>>
    /\ TaskFrame

\* enrichWithRMSIfNeeded lines 443-450 once withRetry has returned frame
afterGetResource(t, frame) ==
    IF frame.status = "running" THEN [t EXCEPT !.pc = "GetResourceByID", !.retry = frame]
    ELSE IF frame.status = "failed" \/ frame.result = NilMap
    THEN [t EXCEPT !.pc = "convert", !.retry = frame]
    ELSE [t EXCEPT !.pc = "convert", !.retry = frame,
                   !.labels = applyRMSEnrichment(@, frame.result, client, cfg)]

\* enrichWithRMSIfNeeded, an attempt of withRetry: GetResourceByID lines 375-384
\* with rmsCacheType.Get; a hit is the answer of the attempt
GetResourceByID(i) ==
    /\ tasks[i].pc = "GetResourceByID"
    /\ LET t == tasks[i]
           cacheKey == buildCacheKey(t.resourceID, <<>>)
           stored == cacheKey \in DOMAIN rmsCache
           hit == stored /\ ~RmsExpired(rmsCache[cacheKey], now)
           frame == withRetryStep(t.retry, rc, sGetRmsInfoFor \o t.resourceID,
                                  [result |-> rmsCache[cacheKey].data, err |-> Nil])
       IN /\ tasks' = [tasks EXCEPT ![i] =
                IF hit THEN afterGetResource(t, frame)
                ELSE [t EXCEPT !.pc = "ListAllResources"]]
          /\ rmsCache' = IF stored /\ ~hit THEN MapDelete(rmsCache, cacheKey)
                         ELSE rmsCache
    /\ UNCHANGED <<obsTagCache, results>>
    /\ TaskFrame

\* the answers of the inventory to ListAllResources for an id: the resources
\* of that id, none when the inventory does not hold it, or an error
ListAllResourcesAnswers(resourceID) ==
    {[resources |-> SelectSeq(Inventory, LAMBDA res : res.Id = resourceID),
      err |-> Nil],
     [resources |-> <<>>, err |-> Nil]}
        \cup {[resources |-> <<>>, err |-> e] : e \in RemoteErrors}

\* GetResourceByID lines 385-391 with lookupResource and cacheResource: the
\* inventory answers; the attempt of withRetry ends
ListAllResources(i) ==
    /\ tasks[i].pc = "ListAllResources"
    /\ \E remote \in ListAllResourcesAnswers(tasks[i].resourceID) :
         LET t == tasks[i]
             cacheKey == buildCacheKey(t.resourceID, <<>>)
             out == lookupResource(t.resourceID, <<>>, remote)
             frame == withRetryStep(t.retry, rc, sGetRmsInfoFor \o t.resourceID, out)
             sent == IF t.call.site = "ListAllResources" /\ ~t.call.over
                     THEN t.call.sent + 1 ELSE 1
             call == [site |-> "ListAllResources", sent |-> sent, err |-> remote.err,
                      over |-> frame.status # "running",
                      failed |-> frame.status = "failed"]
         IN /\ tasks' = [tasks EXCEPT ![i] =
                  [afterGetResource(t, frame) EXCEPT
                     !.call = IF frame.status = "ok" THEN NoCall ELSE call]]
            /\ rmsCache' = IF out.err = Nil
                           THEN cacheResource(rmsCache, out.result, cacheKey, now)
                           ELSE rmsCache
    /\ UNCHANGED <<obsTagCache, results>>
    /\ TaskFrame

\* time.Now() in milliseconds since the epoch, the clock counting five minutes
TimeNow == now * 300000

\* sync.Mutex, were Lock never to block
muLock_NoMutex(ts) == TRUE

\* sync.Mutex: mu.Lock returns when no goroutine is between mu.Lock and mu.Unlock
muLock(ts) == \A j \in DOMAIN ts : ts[j].pc # "locked"

\* processMetrics lines 256-263: the records of the data point are assembled,
\* mu.Lock returns and append loads the slice results
Lock_results(i) ==
    /\ tasks[i].pc = "convert"
    /\ muLock(tasks)
    /\ tasks' = [tasks EXCEPT ![i] = [@ EXCEPT
                     !.pc = "locked",
                     !.localResults = localResultsOf(tasks[i].m, tasks[i].labels, TimeNow),
                     !.seen = results]]
    /\ UNCHANGED <<rmsCache, obsTagCache, results>>
    /\ TaskFrame

\* processMetrics lines 263-264: append stores the slice it loaded with the
\* records of the data point behind it, and mu.Unlock
Append_results(i) ==
    /\ tasks[i].pc = "locked"
    /\ results' = tasks[i].seen \o tasks[i].localResults
    /\ tasks' = [tasks EXCEPT ![i] = [@ EXCEPT !.pc = "done", !.seen = <<>>]]
    /\ UNCHANGED <<rmsCache, obsTagCache>>
    /\ TaskFrame

\* processMetrics line 267 (wg.Wait), ExportMetricValuesBatch lines 196-199 and
\* the rest of the loop body of Collect
Publish ==
    /\ main.pc = "Wait"
    /\ \A i \in DOMAIN tasks : tasks[i].pc = "done"
    /\ EndNamespace("ok", results, NoCall)
    /\ UNCHANGED <<retryVars, cacheVars, client, cfg, namespaces, services, heap>>

NextScrape ==
    \/ ExportMetricValuesBatch
    \/ CollectReturn
    \/ ListMetrics
    \/ BatchListMetricData
    \/ \E i \in DOMAIN tasks : Extract(i)
    \/ \E i \in DOMAIN tasks : LookupEVSID(i)
    \/ \E i \in DOMAIN tasks : GetBucketTags(i)
    \/ \E i \in DOMAIN tasks : GetBucketTagging(i)
    \/ \E i \in DOMAIN tasks : GetBucketInfo(i)
    \/ \E i \in DOMAIN tasks : GetBucketLocation(i)
    \/ \E i \in DOMAIN tasks : GetResourceByID(i)
    \/ \E i \in DOMAIN tasks : ListAllResources(i)
    \/ \E i \in DOMAIN tasks : Lock_results(i)
    \/ \E i \in DOMAIN tasks : Append_results(i)
    \/ Publish

SpecScrape == InitScrape /\ [][NextScrape]_vars

(***************************************************************************)
(* Claims about the enrichment caches (checked under SpecCache)            *)
(***************************************************************************)
\* the TTL and the map of the cache instance under check
InstanceTTL == IF instance = "rms" THEN rmsCacheTTL ELSE obsTagCacheTTL

InstanceCache == IF instance = "rms" THEN rmsCache ELSE obsTagCache

\* the lookup has returned and had loaded an entry of its key
LookedUpEntry == getter.pc = "returned" /\ getter.entry # NoEntry

\* C1: in both caches, under every interleaving of sets, lookups, cleaner
\* steps and clock ticks, a lookup that answers from the cache answers the
\* payload of the entry it loaded, and that entry was written at most TTL
\* before the lookup tested it.
C1_NoStaleEntryReturned ==
    (getter.pc = "returned" /\ getter.found) =>
        /\ getter.entry # NoEntry
        /\ getter.data = getter.entry.data
        /\ getter.at - getter.entry.timestamp <= InstanceTTL

\* C1 witness: a lookup loaded an entry older than TTL and reported a miss
C1_Witness ==
    /\ LookedUpEntry
    /\ getter.at - getter.entry.timestamp > InstanceTTL
    /\ ~getter.found
    /\ getter.err = Nil

C8_Scenario ==
    LookedUpEntry =>
        /\ getter.at = getter.entry.timestamp + InstanceTTL - 1 =>
               getter.found /\ getter.data = getter.entry.data
        /\ getter.at = getter.entry.timestamp + InstanceTTL + 1 => ~getter.found

C8_Stamped(old, new) ==
    \A k \in DOMAIN new :
        (k \notin DOMAIN old \/ new[k] # old[k]) => new[k].timestamp = now

\* C8: in both caches an entry written at t0 is returned unchanged by a lookup
\* that tests it at t0 + TTL - 1 and is a miss at t0 + TTL + 1; every write of
\* a key stores the current time, whatever the key held before, so the same
\* holds again from the time t1 of a later write.
C8_CacheTTL ==
    /\ []C8_Scenario
    /\ [][C8_Stamped(rmsCache, rmsCache') /\ C8_Stamped(obsTagCache, obsTagCache')]_vars

\* C8 witness: the inventory cache returns, at t1 + TTL - 1, an entry written
\* at a time t1 at which an entry written at time 0 is expired
C8_Witness ==
    /\ instance = "rms"
    /\ LookedUpEntry
    /\ getter.found
    /\ getter.entry.timestamp > rmsCacheTTL
    /\ getter.at = getter.entry.timestamp + rmsCacheTTL - 1

\* C9: in both caches, when a lookup finds the entry of its key older than TTL,
\* it reports a miss and, once it has returned, that entry is no longer stored.
C9_ExpiredEntryRemoved ==
    (LookedUpEntry /\ getter.at - getter.entry.timestamp > InstanceTTL) =>
        /\ ~getter.found
        /\ ~(getter.key \in DOMAIN InstanceCache
               /\ InstanceCache[getter.key] = getter.entry)

\* C9 holds of rmsCacheType.Get, which deletes the key
C9_InventoryOnly == instance = "rms" => C9_ExpiredEntryRemoved

(***************************************************************************)
(* Claims about the retry executor (checked under SpecRetry)               *)
(***************************************************************************)
\* the classification of an error text by the signature list, stated apart
\* from shouldRetry
IsRetryableText(e) ==
    \E i \in 1..Len(RetryableErrors) : Contains(ToLower(e), RetryableErrors[i])

C2_Outcome ==
    /\ wr.calls <= rc.MaxRetries + 1
    /\ wr.status = "running" => wr.calls = wr.attempt /\ wr.calls <= rc.MaxRetries
    /\ wr.status # "running" => wr.calls = wr.attempt + 1
    /\ (wr.calls > 0 /\ wr.err = Nil) =>
           wr.status = "ok" /\ wr.retErr = Nil /\ wr.result = OpResult
    /\ wr.status = "ok" => wr.err = Nil
    /\ (wr.err # Nil /\ ~IsRetryableText(wr.err)) => wr.status = "failed"
    /\ wr.status = "failed" => wr.err # Nil /\ wr.retErr # Nil

\* C2: withRetry invokes the operation at most MaxRetries+1 times; a success on
\* any attempt is returned with a nil error and ends the loop at once; an error
\* that matches no retryable signature ends the loop; and once the loop has
\* ended (success, non-retryable error, exhaustion) nothing is invoked again.
C2_WithRetryStops ==
    /\ []C2_Outcome
    /\ [][wr.status # "running" => wr' = wr]_vars

\* C2 witness: the retries are exhausted after MaxRetries+1 >= 3 invocations
C2_Witness ==
    /\ wr.status = "failed"
    /\ rc.MaxRetries >= 2
    /\ wr.calls = rc.MaxRetries + 1

\* C3 as stated: an error containing "429" or "timeout" is retried up to
\* MaxRetries times, and an error containing neither is never retried.
C3_Original ==
    (wr.calls > 0 /\ wr.err # Nil) =>
        IF Contains(wr.err, s429) \/ Contains(wr.err, sTimeout)
        THEN wr.status = "running" \/ wr.calls = rc.MaxRetries + 1
        ELSE wr.status = "failed"

\* C3 (amended): an error whose lower-cased text contains one of the signatures
\* of RetryableErrors (408, 429, 500, 503, timeout, connection reset, connection
\* refused) is retried until MaxRetries retries are spent; an error whose
\* lower-cased text contains none of them is not retried, whatever the attempt.
C3_Classification ==
    (wr.calls > 0 /\ wr.err # Nil) =>
        IF IsRetryableText(wr.err)
        THEN \/ wr.status = "running" /\ wr.calls <= rc.MaxRetries
             \/ wr.status = "failed" /\ wr.calls = rc.MaxRetries + 1
        ELSE wr.status = "failed"

\* C3 witness: after a retried error, a non-retryable error on the second
\* invocation ends the run although retries are left
C3_Witness ==
    /\ rc.MaxRetries = MaxRetriesBound
    /\ wr.status = "failed"
    /\ wr.err = eForbidden
    /\ wr.calls = 2

\* C4: no delay precedes the first attempt and one delay precedes each retry;
\* the delay before the k-th retry is min(InitialBackoff * multiplier^(k-1),
\* MaxBackoff); for a multiplier >= 1 the delays never decrease, and they never
\* exceed MaxBackoff.
C4_Backoff ==
    LET m == rc.BackoffMultiplier
    IN /\ Len(wr.slept) = (IF wr.calls = 0 THEN 0 ELSE wr.calls - 1)
       /\ \A k \in 1..Len(wr.slept) :
            LET p == rc.InitialBackoff * Pow(m.num, k - 1)
                q == Pow(m.den, k - 1)
            IN /\ IF p <= rc.MaxBackoff * q
                  THEN wr.slept[k] * q = p
                  ELSE wr.slept[k] = rc.MaxBackoff
               /\ wr.slept[k] <= rc.MaxBackoff
               /\ (m.num >= m.den /\ k > 1) => wr.slept[k - 1] <= wr.slept[k]

\* C4 witness: three retries slept 1000, 2000 and the cap 3000 (not 4000)
C4_Witness ==
    /\ wr.slept = <<1000, 2000, 3000>>
    /\ rc.MaxBackoff = 3000

(***************************************************************************)
(* Claims about one scrape (checked under SpecScrape)                      *)
(***************************************************************************)
RECURSIVE Flatten(_)
Flatten(seqs) == IF seqs = <<>> THEN <<>> ELSE Head(seqs) \o Flatten(Tail(seqs))

\* the export records of the scrape so far, in the order Collect met them
ScrapeRecords == Flatten([j \in 1..Len(scraped) |-> scraped[j].metricData])

\* (metric name, canonical resource id, resource name, unit) of an export record
IdentityOf(r) ==
    <<r.MetricName,
      IF MapGet(r.Labels, LabelResourceID) = <<>> THEN ResourceIDUnknown
      ELSE r.Labels[LabelResourceID],
      IF MapGet(r.Labels, LabelResourceName) = <<>> THEN ResourceIDUnknown
      ELSE r.Labels[LabelResourceName],
      IF r.Unit = <<>> THEN ResourceIDUnknown ELSE r.Unit>>

\* the records that are the first with their identity, in order
RECURSIVE FirstOccurrences(_)
FirstOccurrences(records) ==
    IF records = <<>> THEN <<>>
    ELSE LET init == SubSeq(records, 1, Len(records) - 1)
             last == records[Len(records)]
         IN IF \E j \in 1..Len(init) : IdentityOf(init[j]) = IdentityOf(last)
            THEN FirstOccurrences(init)
            ELSE Append(FirstOccurrences(init), last)

\* the metric p on the channel is the publication of export record r
PublicationOf(p, r) ==
    /\ p.value = r.Value
    /\ MapGet(p.labels, LabelNamespace) = MapGet(r.Labels, LabelNamespace)
    /\ <<r.MetricName, p.labels[LabelResourceID], p.labels[LabelResourceName],
         p.labels[LabelUnit]>> = IdentityOf(r)

PublishedAre(records) ==
    /\ Len(published) = Len(records)
    /\ \A i \in 1..Len(records) : PublicationOf(published[i], records[i])

\* C5: of the export records of one scrape that have the same (metric name,
\* canonical resource id, resource name, unit), exactly one is published, the
\* first one met: the channel holds the first occurrences, and nothing else.
C5_Deduplication ==
    instance = "scrape" => PublishedAre(FirstOccurrences(ScrapeRecords))

\* the five components of the key of an export record of the namespace:
\* published metric name, resource id, resource name, unit, raw metric name
KeyComponents(namespace, r) ==
    <<createMetricName(namespace, r.MetricName),
      getValueOrDefault(MapGet(r.Labels, LabelResourceID), ResourceIDUnknown),
      getValueOrDefault(MapGet(r.Labels, LabelResourceName), ResourceIDUnknown),
      getValueOrDefault(r.Unit, ResourceIDUnknown),
      r.MetricName>>

\* the records of a namespace that are the first with their key, in order
FirstByKey(namespace, records) ==
    LET key(r) == LET c == KeyComponents(namespace, r)
                  IN labelKey(c[1], c[2], c[3], c[4], c[5])
    IN SelectSeq([k \in 1..Len(records) |->
                     [r |-> records[k],
                      first |-> \A j \in 1..(k - 1) : key(records[j]) # key(records[k])]],
                 LAMBDA x : x.first)

\* what holds: among the records of each namespace taken alone, the first
\* record of each key of seenMetrics is published
C5_WithinNamespace ==
    instance = "scrape" =>
    PublishedAre(Flatten([j \in 1..Len(scraped) |->
        LET firsts == FirstByKey(scraped[j].namespace, scraped[j].metricData)
        IN [k \in 1..Len(firsts) |-> firsts[k].r]]))

\* a namespace of the scrape published records of the same identity as an
\* earlier record of it, and dropped them
C5_DroppedInNamespace ==
    \E j \in 1..Len(scraped) :
        Len(FirstOccurrences(scraped[j].metricData)) + 2 <= Len(scraped[j].metricData)

PublishedOf(namespace) ==
    SelectSeq(published, LAMBDA p : MapGet(p.labels, LabelNamespace) = namespace)

\* C6: a namespace whose catalog listing or batch fetch failed (the retries
\* spent, or the error not retryable) returns no record and has none published;
\* whatever failed, Collect goes through all requested namespaces in order, and
\* every record of a namespace that Collect fetched has its publication.
C6_NamespaceFailureIsolated ==
    /\ Len(scraped) <= Len(services)
    /\ \A j \in 1..Len(scraped) :
         /\ scraped[j].namespace = services[j]
         /\ scraped[j].status \in FailedStatuses =>
                scraped[j].metricData = <<>> /\ PublishedOf(services[j]) = <<>>
         /\ (scraped[j].status = "ok" /\ instance = "scrape") =>
                \A k \in 1..Len(scraped[j].metricData) :
                    \E i \in 1..Len(published) :
                        /\ MapGet(published[i].labels, LabelNamespace) = services[j]
                        /\ <<scraped[j].metricData[k].MetricName,
                             published[i].labels[LabelResourceID],
                             published[i].labels[LabelResourceName],
                             published[i].labels[LabelUnit]>>
                               = IdentityOf(scraped[j].metricData[k])
    /\ (main.pc = "Collect" /\ main.call.failed) =>
           /\ main.call.site \in {"ListMetrics", "BatchListMetricData"}
           /\ scraped # <<>>
           /\ scraped[Len(scraped)].status \in FailedStatuses
    /\ (main.pc \in {"ListMetrics", "BatchListMetricData", "Wait"}) =>
           ns <= Len(services) /\ Len(scraped) = ns - 1
    /\ main.pc = "done" => Len(scraped) = Len(services)

\* C6 witness: the scrape is over; the batch fetch of a namespace failed with
\* the retries spent on a retryable error, and a later namespace was scraped
\* and has its records published
\* what holds: a failed namespace has no record, Collect goes through all
\* requested namespaces, and of a fetched namespace the first record of each
\* key of seenMetrics is published
C6_FirstOfKeyPublished ==
    /\ \A j \in 1..Len(scraped) :
         /\ scraped[j].namespace = services[j]
         /\ scraped[j].status \in FailedStatuses =>
                scraped[j].metricData = <<>> /\ PublishedOf(services[j]) = <<>>
         /\ (scraped[j].status = "ok" /\ instance = "scrape") =>
                LET firsts == FirstByKey(services[j], scraped[j].metricData)
                IN \A k \in 1..Len(firsts) :
                    \E i \in 1..Len(published) :
                        /\ MapGet(published[i].labels, LabelNamespace) = services[j]
                        /\ <<firsts[k].r.MetricName,
                             published[i].labels[LabelResourceID],
                             published[i].labels[LabelResourceName],
                             published[i].labels[LabelUnit]>> = IdentityOf(firsts[k].r)
    /\ main.pc = "done" => Len(scraped) = Len(services)

\* the listing of the first namespace failed with its retries spent, and the
\* second namespace was fetched but one of its records, of another identity
\* than the published one, is not published
C6_RecordLostBesideFailure ==
    /\ main.pc = "done"
    /\ instance = "scrape"
    /\ Len(scraped) = 2
    /\ scraped[1].status = "defsFailed"
    /\ scraped[2].status = "ok"
    /\ \E k \in 1..Len(scraped[2].metricData) :
          \A i \in 1..Len(published) :
              <<scraped[2].metricData[k].MetricName,
                published[i].labels[LabelResourceID],
                published[i].labels[LabelResourceName],
                published[i].labels[LabelUnit]>> # IdentityOf(scraped[2].metricData[k])

C6_Witness ==
    /\ main.pc = "done"
    /\ rc.MaxRetries >= 1
    /\ \E j \in 1..Len(scraped) : \E k \in (j + 1)..Len(scraped) :
         /\ scraped[j].status = "seriesFailed"
         /\ scraped[k].status = "ok"
         /\ PublishedOf(services[k]) # <<>>

\* the records r of results at positions from + 1 .. from + Len(part) are part
IsPartOf(part, whole) ==
    \E from \in 0..(Len(whole) - Len(part)) :
        SubSeq(whole, from + 1, from + Len(part)) = part

\* an inventory lookup or a bucket lookup of the goroutine failed
LookupFailed(t) == t.retry.status = "failed" \/ t.tagsErr # Nil \/ t.infoErr # Nil

\* record r of goroutine t has the label of raw dimension d: lower-cased name,
\* trimmed value; only the disk_name of a volume that handleEVSIfNeeded found
\* has replaced the compound "<vm id>-<device>" of the dimension of that name
RawLabelKept(t, r, d) ==
    LET key == ToLower(d.Name)
    IN /\ key \in DOMAIN r.Labels
       /\ \/ r.Labels[key] = TrimSpace(d.Value)
          \/ /\ key = sDiskName
             /\ Contains(services[ns], sEVS)
             /\ t.resourceID # TrimSpace(d.Value)

\* the records of data point t.m: one per sample or a single one, with the
\* metric name, the labels of the raw dimensions, the resolved resource id and
\* a resource name, which is "unknown" after a failed inventory lookup unless
\* the object-storage override had set one
RecordsDegraded(t) ==
    /\ Len(t.localResults) = IF Len(t.m.Datapoints) = 0 THEN 1 ELSE Len(t.m.Datapoints)
    /\ \A k \in 1..Len(t.localResults) :
         LET r == t.localResults[k]
         IN /\ r.MetricName = t.m.MetricName
            /\ MapGet(r.Labels, LabelNamespace) = services[ns]
            /\ \A d \in 1..Len(t.m.Dimensions) : RawLabelKept(t, r, t.m.Dimensions[d])
            /\ t.resourceID # <<>>
            /\ MapGet(r.Labels, LabelResourceID) = t.resourceID
            /\ MapGet(r.Labels, LabelResourceName) # <<>>
            /\ t.retry.status = "failed" =>
                   MapGet(r.Labels, LabelResourceName)
                      = IF LabelResourceName \in DOMAIN t.labels
                        THEN t.labels[LabelResourceName] ELSE ResourceIDUnknown
            /\ (t.retry.status = "failed" /\ services[ns] # NamespaceOBS) =>
                   MapGet(r.Labels, LabelResourceName) = ResourceIDUnknown

\* C7: a goroutine whose inventory lookup or bucket lookup failed still appends
\* the records of its data point to the results of the namespace, with the
\* labels of the raw dimensions, the resolved resource_id, and resource_name
\* "unknown" when the inventory gave no name; they stay in the results.
C7_LookupFailureKeepsRecords ==
    \A i \in DOMAIN tasks :
        (tasks[i].pc = "done" /\ LookupFailed(tasks[i])) =>
            /\ tasks[i].localResults # <<>>
            /\ IsPartOf(tasks[i].localResults, results)
            /\ RecordsDegraded(tasks[i])

\* C7 witness: the tag fetch, the location fetch and the inventory lookup of a
\* bucket's data point all failed, and its record is in the results
C7_Witness ==
    \E i \in DOMAIN tasks :
        /\ tasks[i].pc = "done"
        /\ tasks[i].retry.status = "failed"
        /\ tasks[i].tagsErr # Nil
        /\ tasks[i].infoErr # Nil
        /\ IsPartOf(tasks[i].localResults, results)
        /\ MapGet(tasks[i].localResults[1].Labels, LabelResourceName) = ResourceIDUnknown
        /\ MapGet(tasks[i].localResults[1].Labels, sBucketName) = sB1

\* the remote calls the goroutines are in or have last seen fail
Calls == {main.call} \cup {tasks[i].call : i \in DOMAIN tasks}

RetriedToTheLimit(c) ==
    (c.over /\ c.failed /\ IsRetryableText(c.err)) => c.sent = rc.MaxRetries + 1

\* C10: whichever remote call of a scrape it is (catalog page, batch query,
\* inventory search, bucket tags, bucket location, volume listing), when the
\* caller treats it as failed on an error that matches a retryable signature,
\* the call has been sent MaxRetries + 1 times.
C10_EveryRemoteCallRetried == \A c \in Calls : RetriedToTheLimit(c)

\* C10 holds of the calls of the monitoring service and of the inventory
C10_MonitoringAndInventory ==
    \A c \in Calls :
        c.site \in {"ListMetrics", "BatchListMetricData", "ListAllResources"} =>
            RetriedToTheLimit(c)

\* an inventory search failed with the retries spent
C10_InventoryRetried ==
    \E c \in Calls : /\ c.site = "ListAllResources" /\ c.over /\ c.failed
                     /\ IsRetryableText(c.err) /\ c.sent >= 2

(***************************************************************************)
(* Claims about the resolution of one data point (checked under SpecScrape)*)
(***************************************************************************)
\* the raw id of a data point of the block storage namespace: the trimmed
\* value of its dimension
EvsRawID(t) == TrimSpace(t.m.Dimensions[1].Value)

\* the positions of a last "-" of id that has a character on both sides
LastDashes(id) ==
    {k \in 2..(Len(id) - 1) : id[k] = "-" /\ \A j \in (k + 1)..Len(id) : id[j] # "-"}

\* the volumes attached to server "<serverId>" as "/dev/<device>", id being
\* "<serverId>-<device>"
AttachedAs(id) ==
    {v \in 1..Len(Volumes) :
        \E k \in LastDashes(id) : \E a \in 1..Len(Volumes[v].Attachments) :
            /\ Volumes[v].Attachments[a].ServerId = SubSeq(id, 1, k - 1)
            /\ Volumes[v].Attachments[a].Device
                   = <<"/","d","e","v","/">> \o SubSeq(id, k + 1, Len(id))}

\* goroutine t of a block storage data point has gone through handleEVSIfNeeded
\* and is u: a listed volume attached as the raw id says gives its id, other
\* raw ids are kept and no volume is listed for one that does not decode;
\* named says what holds of disk_name after a match
EvsDecoded(t, u, named(_, _, _)) ==
    LET raw == EvsRawID(t)
        listed == u.call.site = "ListVolumes" /\ u.call.err = Nil
    IN /\ u.pc \in {"GetResourceByID", "convert"}
       /\ (u.call.site = "ListVolumes") = (LastDashes(raw) # {})
       /\ IF listed /\ AttachedAs(raw) # {}
          THEN \E v \in AttachedAs(raw) :
                  /\ u.resourceID = Volumes[v].Id
                  /\ MapGet(u.labels, LabelResourceID) = Volumes[v].Id
                  /\ named(t, u, Volumes[v])
          ELSE /\ u.resourceID = raw
               /\ MapGet(u.labels, LabelResourceID) = raw
               /\ t.pc = "ListVolumes" => u.labels = t.labels

\* the steps of the goroutines of a block storage namespace that end
\* handleEVSIfNeeded, in the projects that have a block storage client or not
EvsSteps(withClient, named(_, _, _)) ==
    \A i \in DOMAIN tasks :
        (/\ i \in DOMAIN tasks'
         /\ client.EVS \in withClient
         /\ Contains(services[ns], <<"E","V","S">>)
         /\ tasks[i].pc \in {"extract", "ListVolumes"}
         /\ tasks'[i].pc \notin {"extract", "ListVolumes"})
            => EvsDecoded(tasks[i], tasks'[i], named)

\* C11: in the block storage namespace a raw id "<serverId>-<device>"
\* is split on its last "-"; a volume attached to serverId as "/dev/<device>"
\* gives the resource id, and the labels have a disk_name; with no such
\* volume, or an id with no dash, a leading dash only or a final dash, the id
\* is kept and nothing fails.
C11_EvsDecoding ==
    [][EvsSteps(BOOLEAN, LAMBDA t, u, vol : <<"d","i","s","k","_","n","a","m","e">>
                                       \in DOMAIN u.labels)]_vars

\* what holds of C11 in a project whose block storage client was initialised:
\* on a match disk_name is set to the name of the volume when that name is not
\* empty, and no label but resource_id is touched when it is empty
C11_WithClient ==
    [][EvsSteps({TRUE}, LAMBDA t, u, vol :
          u.labels = IF vol.Name # <<>>
                     THEN MapSet(MapSet(t.labels, LabelResourceID, vol.Id),
                                 <<"d","i","s","k","_","n","a","m","e">>, vol.Name)
                     ELSE MapSet(t.labels, LabelResourceID, vol.Id))]_vars

\* "vm-1-vda" was resolved to the volume attached to vm-1 as
\* /dev/vda, and the record has its name as disk_name
C11_Resolved ==
    \E i \in DOMAIN tasks :
        /\ tasks[i].pc = "done"
        /\ EvsRawID(tasks[i]) = <<"v","m","-","1","-","v","d","a">>
        /\ tasks[i].resourceID = <<"v","o","l","-","1">>
        /\ MapGet(tasks[i].localResults[1].Labels, <<"d","i","s","k","_","n","a","m","e">>)
               = <<"d","a","t","a">>

\* the value a sample carries: its average, 0 when it has none
SampleValue(dp) == IF dp.Average = <<>> THEN 0 ELSE dp.Average[1]

\* the records of data point t.m are one per sample, in order, each with the
\* value and the time of its sample, or one record of value 0 at time
\* assembled for a data point with no sample
OnePerSample(t, assembled) ==
    LET samples == t.m.Datapoints
        records == t.localResults
    IN /\ Len(records) = IF Len(samples) >= 1 THEN Len(samples) ELSE 1
       /\ \A k \in 1..Len(records) : records[k].MetricName = t.m.MetricName
       /\ \A k \in 1..Len(samples) :
             /\ records[k].Value = SampleValue(samples[k])
             /\ records[k].Timestamp = samples[k].Timestamp
       /\ samples = <<>> => records[1].Value = 0 /\ records[1].Timestamp = assembled

\* C12: the assembler emits one export record per sample of a data point, with
\* the value and the timestamp of that sample, and for a data point with no
\* sample exactly one record of value 0 at the time of assembly: max(1, number
\* of samples) records.
C12_OneRecordPerSample ==
    \A i \in DOMAIN tasks : tasks[i].pc = "done" => OnePerSample(tasks[i], now * 300000)

\* C12 witness: a data point with no sample has its one record of value 0 in
\* the results, stamped with the time of assembly, which is not the epoch
C12_Witness ==
    \E i \in DOMAIN tasks :
        /\ tasks[i].pc = "done"
        /\ tasks[i].m.Datapoints = <<>>
        /\ Len(tasks[i].localResults) = 1
        /\ tasks[i].localResults[1].Value = 0
        /\ tasks[i].localResults[1].Timestamp > 0
        /\ IsPartOf(tasks[i].localResults, results)

\* a data point with two samples has its two records in the results
C12_TwoSamples ==
    \E i \in DOMAIN tasks :
        /\ tasks[i].pc = "done"
        /\ Len(tasks[i].m.Datapoints) = 2
        /\ Len(tasks[i].localResults) = 2
        /\ tasks[i].localResults[1].Value # tasks[i].localResults[2].Value

(***************************************************************************)
(* Claims about one call of ExportMetricValuesBatch (checked under         *)
(* SpecScrape)                                                             *)
(***************************************************************************)
\* the inventory gave goroutine t no resource: the project has no inventory
\* client, or the lookup failed or found nothing
NoInventoryMatch(t) == ~client.RMS \/ t.retry.status = "failed"

\* the labels the scenario expects
ScenarioLabels ==
    (<<"n","a","m","e","s","p","a","c","e">> :> <<"N","S",".","E","X","A","M","P","L","E">>)
        @@ (<<"r","e","s","o","u","r","c","e","_","i","d">> :> <<"v","m","-","1">>)
        @@ (<<"r","e","s","o","u","r","c","e","_","n","a","m","e">>
               :> <<"u","n","k","n","o","w","n">>)
        @@ (<<"u","n","i","t">> :> <<"%">>)

\* ExportMetricValuesBatch returns for namespace "NS.EXAMPLE", whose catalog
\* is one metric "cpu_util" of dimension instance_id=vm-1 and unit "%" with one
\* sample (3, 42.5), and the inventory gave no match: it returns one record
\* "cpu_util" of value 42.5 with these labels
ScenarioReturns(labels) ==
    (/\ instance = "export"
     /\ main.pc = "Wait"
     /\ main'.pc # "Wait"
     /\ \A i \in DOMAIN tasks : NoInventoryMatch(tasks[i]))
        => /\ Len(scraped') = 1
           /\ scraped'[1].namespace = <<"N","S",".","E","X","A","M","P","L","E">>
           /\ Len(scraped'[1].metricData) = 1
           /\ scraped'[1].metricData[1].MetricName = <<"c","p","u","_","u","t","i","l">>
           /\ scraped'[1].metricData[1].Value = 425
           /\ scraped'[1].metricData[1].Timestamp = 3
           /\ scraped'[1].metricData[1].Labels = labels

\* C13 as stated: the end-to-end scenario yields exactly one ExportRecord with
\* metricName "cpu_util", value 42.5 and labels {namespace: "NS.EXAMPLE",
\* resource_id: "vm-1", resource_name: "unknown", unit: "%"}.
C13_Original == [][ScenarioReturns(ScenarioLabels)]_vars

\* C13 amended: the labels of the record are those four and the label of the
\* dimension, instance_id: "vm-1".
C13_Scenario ==
    [][ScenarioReturns(ScenarioLabels
           @@ (<<"i","n","s","t","a","n","c","e","_","i","d">> :> <<"v","m","-","1">>))]_vars

\* C13 witness: the call for "NS.EXAMPLE" has returned its one record, of
\* value 42.5 and resource_name "unknown"
C13_Witness ==
    /\ instance = "export"
    /\ main.pc = "done"
    /\ Len(scraped) = 1
    /\ scraped[1].status = "ok"
    /\ Len(scraped[1].metricData) = 1
    /\ scraped[1].metricData[1].Value = 425
    /\ MapGet(scraped[1].metricData[1].Labels, LabelResourceName) = ResourceIDUnknown

(***************************************************************************)
(* Claims about the namespaces of a scrape (checked under SpecScrape)      *)
(***************************************************************************)
\* the well-known namespace identifiers
WellKnown == {AllNamespaces[k] : k \in 1..Len(AllNamespaces)}

\* the namespaces a remote call is being made for or was made for: those
\* ExportMetricValuesBatch was called for, that of the catalog listing or the
\* batch query in progress, those of the batch and of the data points
RemoteCallNamespaces ==
    {scraped[j].namespace : j \in 1..Len(scraped)}
        \cup (IF main.pc \in {"ListMetrics", "BatchListMetricData", "Wait", "panic"}
              THEN {services[ns]} ELSE {})
        \cup {main.metrics[k].Namespace : k \in 1..Len(main.metrics)}
        \cup {tasks[i].m.Namespace : i \in DOMAIN tasks}

Resolved(t) == t.pc \notin {"extract", "ListVolumes", "panic"}

\* the key Collect deduplicates the first record of goroutine t on
DedupKeyOf(t) ==
    LET r == t.localResults[1]
    IN labelKey(createMetricName(services[ns], <<"x">>),
                getValueOrDefault(MapGet(r.Labels, LabelResourceID), ResourceIDUnknown),
                getValueOrDefault(MapGet(r.Labels, LabelResourceName), ResourceIDUnknown),
                getValueOrDefault(r.Unit, ResourceIDUnknown), <<"x">>)

\* C15: the resource id resolved for a data point, and with it the
\* deduplication key, is a function of its dimensions and its namespace (and
\* of the answers of the collaborators): two data points of a namespace with
\* the same dimensions are resolved to the same canonical resource id, in any
\* interleaving of their goroutines, also when several dimensions qualify.
C15_StableResourceID ==
    \A i, j \in DOMAIN tasks :
        (/\ Resolved(tasks[i]) /\ Resolved(tasks[j])
         /\ tasks[i].m.Dimensions = tasks[j].m.Dimensions)
            => tasks[i].resourceID = tasks[j].resourceID

\* two data points with the same dimensions and the same inventory answers
\* have records that Collect keys differently
C15_KeysDiffer ==
    \E i, j \in DOMAIN tasks :
        /\ tasks[i].pc = "done" /\ tasks[j].pc = "done"
        /\ tasks[i].m.Dimensions = tasks[j].m.Dimensions
        /\ tasks[i].retry.status = "failed" /\ tasks[j].retry.status = "failed"
        /\ DedupKeyOf(tasks[i]) # DedupKeyOf(tasks[j])

(***************************************************************************)
(* Claims about the catalog listing and the batch query (checked under     *)
(* SpecScrape)                                                             *)
(***************************************************************************)
\* the catalog of the namespace holds no metric
EmptyCatalog(namespace) ==
    \A pages \in CatalogPages(namespace) :
        \A k \in 1..Len(pages) : pages[k].Metrics = <<>>

\* no definition of the catalog of the namespace goes into the batch: each
\* lacks a name, a namespace or a dimension
NoneBatchable(namespace) ==
    \A pages \in CatalogPages(namespace) :
        \A k \in 1..Len(pages) : \A x \in 1..Len(pages[k].Metrics) :
            LET m == pages[k].Metrics[x]
            IN Len(m.MetricName) = 0 \/ Len(m.Namespace) = 0 \/ Len(m.Dimensions) = 0

\* the catalog listing of the namespace ends in this step: the namespace is
\* over with it, or the batch query is next
ListingEnds ==
    /\ main.pc = "ListMetrics"
    /\ main'.pc # "ListMetrics"

\* C16: the catalog listing of a namespace with zero metrics returns an empty
\* list and no error, and a listing that failed returns an error: the caller
\* takes a namespace without metrics and a failed fetch apart.
C16_EmptyIsNotFailure ==
    [][ListingEnds =>
         IF main'.pc = "BatchListMetricData"
         THEN /\ ~main'.call.failed
              /\ ~EmptyCatalog(services[ns])
              /\ main'.metrics # <<>>
         ELSE /\ Len(scraped') = Len(scraped) + 1
              /\ scraped'[Len(scraped')].metricData = <<>>
              /\ IF main'.call.failed
                 THEN /\ main'.call.site = "ListMetrics"
                      /\ main'.call.err # Nil
                      /\ scraped'[Len(scraped')].status = "defsFailed"
                 ELSE IF EmptyCatalog(services[ns])
                      THEN scraped'[Len(scraped')].status = "noMetrics"
                      ELSE /\ NoneBatchable(services[ns])
                           /\ scraped'[Len(scraped')].status = "noData"]_vars

\* C16 witness: in one scrape a namespace had no metrics and the listing of
\* another failed
C16_Witness ==
    \E j, k \in 1..Len(scraped) :
        /\ scraped[j].status = "noMetrics"
        /\ EmptyCatalog(scraped[j].namespace)
        /\ scraped[k].status = "defsFailed"

\* C17: one time-series fetch in which no request fails sends exactly one
\* batch request: the first answer ends the fetch, with the data points or
\* without data; a fetch for definitions of which none is left after the
\* filter sends no request and the namespace ends with no data and no error.
C17_OneBatchRequest ==
    [][/\ (/\ main.pc = "BatchListMetricData"
           /\ main.inner = NewRetry /\ main.outer = NewRetry
           /\ main'.call.err = Nil)
          => /\ main'.pc \in {"Wait", "Collect"}
             /\ main'.pc = "Collect" =>
                   scraped'[Len(scraped')] = [namespace |-> services[ns],
                                              status |-> "noData", metricData |-> <<>>]
       /\ main'.pc = "BatchListMetricData" => main'.metrics # <<>>
       /\ (ListingEnds /\ ~main'.call.failed /\ ~EmptyCatalog(services[ns])
             /\ NoneBatchable(services[ns]))
          => /\ main'.pc = "Collect"
             /\ scraped'[Len(scraped')] = [namespace |-> services[ns],
                                           status |-> "noData", metricData |-> <<>>]
      ]_vars

\* C17 witness: a namespace whose definitions were all filtered out ended
\* without data, and the batch query of a later namespace was answered at once
C17_Witness ==
    /\ \E j \in 1..Len(scraped) :
          /\ scraped[j].status = "noData"
          /\ ~EmptyCatalog(scraped[j].namespace)
          /\ NoneBatchable(scraped[j].namespace)
    /\ main.pc = "Wait"
    /\ main.call = NoCall
    /\ tasks # <<>>

(***************************************************************************)
(* Claims about the error of withRetry (checked under SpecRetry)           *)
(***************************************************************************)
\* "operation <name> failed after <n> attempts: <err>"
FailureText(name, n, err) ==
    <<"o","p","e","r","a","t","i","o","n"," ">> \o name
        \o <<" ","f","a","i","l","e","d"," ","a","f","t","e","r"," ">> \o Itoa(n)
        \o <<" ","a","t","t","e","m","p","t","s",":"," ">> \o err

\* C18: the error withRetry returns when it fails wraps the last error of the
\* operation and names the operation and the attempt count, which is the
\* number of times the operation was invoked: 1 for a first error that is not
\* retryable, MaxRetries + 1 after exhaustion.
C18_AttemptCount ==
    wr.status = "failed" => wr.retErr = FailureText(sOpName, wr.calls, wr.err)

\* what holds of C18: the error wraps the last error and names the operation,
\* and the count it names is MaxRetries + 1, however often the operation was
\* invoked
C18_NamesTheLimit ==
    wr.status = "failed" =>
        /\ wr.err # Nil
        /\ wr.retErr = FailureText(sOpName, rc.MaxRetries + 1, wr.err)

\* withRetry failed on a first error that is not retryable, with retries to
\* spare
C18_FirstErrorFatal ==
    /\ wr.status = "failed"
    /\ wr.calls = 1
    /\ rc.MaxRetries >= 1

\* ---------------------------------------------------------------------------
\* C19  project validation
\* ---------------------------------------------------------------------------

\* the project of the client in use passed validateProject
ProjectIsValid == validateProject(client.ProjectName) = Nil

\* C19: a configured project that fails validation is skipped: no clients are
\* initialised for it and it is never scraped, while the exporter continues with
\* the valid projects.  Stated of the scrape: whenever a namespace has been
\* scraped with a project's client, that project passed validation.
C19_InvalidProjectSkipped == (scraped # <<>>) => ProjectIsValid

\* the part that holds: the valid projects are scraped
C19_ValidProjectScraped == ProjectIsValid /\ published # <<>>

(***************************************************************************)
(* Claims about concurrent cache access (checked under SpecCache)          *)
(***************************************************************************)
\* the keys a step removes from a cache
RemovedRms == DOMAIN rmsCache \ DOMAIN rmsCache'
RemovedObs == DOMAIN obsTagCache \ DOMAIN obsTagCache'

\* C20: under any interleaving of get or sweep with set on the same key, a
\* fresh entry (age <= TTL) stored by a set is never removed by a get or a
\* sweep that had observed the previous, expired entry of that key: every
\* entry a step removes is expired at the time of the step.
C20_FreshEntrySurvives ==
    [][/\ \A k \in RemovedRms : RmsExpired(rmsCache[k], now)
       /\ \A k \in RemovedObs : ObsExpired(obsTagCache[k], now)]_vars

\* the part that holds: a step that stores an entry leaves the key with the
\* payload of that set and the time of the step, whatever lookup or sweep is
\* in progress
C20_LastWriterWins ==
    [][/\ \A k \in DOMAIN rmsCache' :
             (k \notin DOMAIN rmsCache \/ rmsCache'[k] # rmsCache[k])
                => /\ rmsCache'[k].timestamp = now
                   /\ <<k, rmsCache'[k].data>> \in RmsSets
       /\ \A k \in DOMAIN obsTagCache' :
             (k \notin DOMAIN obsTagCache \/ obsTagCache'[k] # obsTagCache[k])
                => obsTagCache'[k].timestamp = now]_vars

\* a set has replaced the expired entry that a lookup in progress had loaded
C20_SetDuringGet ==
    /\ getter.pc = "loaded"
    /\ RmsExpired(getter.entry, now)
    /\ getter.key \in DOMAIN rmsCache
    /\ ~RmsExpired(rmsCache[getter.key], now)

(***************************************************************************)
(* Claims about the goroutines of processMetrics (checked under SpecScrape)*)
(***************************************************************************)
\* how often x occurs in the sequence
CountIn(x, seq) == Cardinality({k \in 1..Len(seq) : seq[k] = x})

\* the two sequences hold the same elements, each as often
SameMultiset(a, b) ==
    /\ Len(a) = Len(b)
    /\ \A k \in 1..Len(a) : CountIn(a[k], a) = CountIn(a[k], b)

\* the data points of the batch answer that have a name and are not row-filtered
DataPointsToProcess(namespace, batchData) ==
    SelectSeq(batchData, LAMBDA m :
        Len(m.MetricName) > 0
          /\ ~(namespace = NamespaceAGT /\ Len(m.MetricName) >= 3
                 /\ SubSeq(m.MetricName, 1, 3) = <<"i","d","_">>))

\* the records assembled for the data points, in the order of the data points
AssembledRecords == Flatten([i \in 1..Len(tasks) |-> tasks[i].localResults])

\* processMetrics returns in this step
ProcessMetricsReturns == main.pc = "Wait" /\ main'.pc = "Collect"

\* C21: processMetrics returns only after every per-data-point task has
\* finished, and under every interleaving of the tasks its result is exactly
\* the multiset union of the records assembled for each data point that has a
\* non-empty name and is not row-filtered: no record is lost, duplicated or
\* half-written by concurrent appends.
C21_AllTasksAllRecords ==
    [][ProcessMetricsReturns =>
         LET todo == DataPointsToProcess(services[ns], main.batchData)
             returned == scraped'[Len(scraped')].metricData
         IN /\ \A i \in DOMAIN tasks : tasks[i].pc = "done"
            /\ Len(tasks) = Len(todo)
            /\ \A i \in DOMAIN tasks :
                  /\ tasks[i].m = todo[i]
                  /\ tasks[i].localResults # <<>>
                  /\ tasks[i].localResults =
                        convertDatapointsToExports(tasks[i].m,
                            tasks[i].labels @@ (LabelResourceName :> ResourceIDUnknown),
                            safeUnit(tasks[i].m.Unit), TimeNow)
            /\ SameMultiset(returned, AssembledRecords)]_vars

\* C21 witness: two goroutines have appended their records in the order
\* opposite to their data points, a third data point had no name, and
\* processMetrics is about to return
C21_Witness ==
    /\ main.pc = "Wait"
    /\ Len(tasks) >= 2
    /\ Len(main.batchData) > Len(tasks)
    /\ \A i \in DOMAIN tasks : tasks[i].pc = "done"
    /\ results # AssembledRecords
    /\ SameMultiset(results, AssembledRecords)

(***************************************************************************)
(* Claims about the number of requests of one fetch (checked under         *)
(* SpecScrape)                                                             *)
(***************************************************************************)
\* C22: for one logical fetch (one catalog listing page, or one batch query
\* of one scrape of one namespace), the number of times the remote call is
\* actually sent is at most maxRetries+1, also when the remote keeps failing
\* with a retryable error: retry loops do not multiply.
C22_SendsBounded == main.sends <= rc.MaxRetries + 1

\* what holds: one withRetry loop sends at most maxRetries+1 requests, and the
\* two nested loops together at most (maxRetries+1) * (maxRetries+1)
C22_NestedBound ==
    /\ main.inner.calls <= rc.MaxRetries + 1
    /\ main.call.sent <= rc.MaxRetries + 1
    /\ main.sends <= (rc.MaxRetries + 1) * (rc.MaxRetries + 1)

\* the batch query was sent more often than maxRetries+1 times
C22_Multiplied ==
    /\ main.pc = "BatchListMetricData"
    /\ main.sends > rc.MaxRetries + 1
    /\ main.outer.attempt > 0

(***************************************************************************)
(* Claims about the deduplication key (checked under SpecScrape)           *)
(***************************************************************************)
\* the records that no earlier record of the sequence equals in all five components
DistinctByComponents(namespace, records) ==
    LET first(k) == \A j \in 1..(k - 1) :
                       KeyComponents(namespace, records[j])
                         # KeyComponents(namespace, records[k])
        RECURSIVE Pick(_)
        Pick(k) == IF k > Len(records) THEN <<>>
                   ELSE IF first(k) THEN <<records[k]>> \o Pick(k + 1)
                   ELSE Pick(k + 1)
    IN Pick(1)

\* C23: the deduplication key is injective on its components: a record is
\* dropped as a duplicate only if an earlier record (of the same namespace of
\* the scrape) has the same published metric name, resource id, resource name,
\* unit and raw metric name; two records that differ in any of the five (for
\* example ids and names containing "-") are both published.
C23_KeyInjective ==
    instance = "scrape" =>
        PublishedAre(Flatten([j \in 1..Len(scraped) |->
            DistinctByComponents(scraped[j].namespace, scraped[j].metricData)]))

\* two records of a namespace differ in resource id and resource name and
\* have the same key
C23_Collision ==
    \E j \in 1..Len(scraped) :
        \E a, b \in 1..Len(scraped[j].metricData) :
            LET ka == KeyComponents(scraped[j].namespace, scraped[j].metricData[a])
                kb == KeyComponents(scraped[j].namespace, scraped[j].metricData[b])
            IN /\ ka # kb
               /\ labelKey(ka[1], ka[2], ka[3], ka[4], ka[5])
                     = labelKey(kb[1], kb[2], kb[3], kb[4], kb[5])

(***************************************************************************)
(* Claims about the retry of the inventory lookup (checked under           *)
(* SpecScrape)                                                             *)
(***************************************************************************)
\* the last lookup of the goroutine ended with "resource <id> not found"
EndedNotFound(t) == t.retry.err = sResourceSpace \o t.resourceID \o sNotFound

\* C24: whether a failed inventory lookup is retried depends only on the kind
\* of failure and not on the text of the resource id: a lookup that ends with
\* "resource not found" is a non-retryable outcome and is surfaced after a
\* single lookup, for every resource id (including ids that contain digit
\* runs such as 429, 500 or 503).
C24_NotFoundIsFinal ==
    \A i \in DOMAIN tasks :
        EndedNotFound(tasks[i]) =>
            /\ tasks[i].retry.status = "failed"
            /\ tasks[i].pc # "GetResourceByID"

\* what holds: "resource not found" is final for the ids in which no
\* signature of RetryableErrors occurs
C24_FinalWithoutSignature ==
    \A i \in DOMAIN tasks :
        (/\ EndedNotFound(tasks[i])
         /\ \A k \in 1..Len(RetryableErrors) :
               ~Contains(ToLower(tasks[i].resourceID), RetryableErrors[k]))
            => /\ tasks[i].retry.status = "failed"
               /\ tasks[i].pc # "GetResourceByID"

\* a lookup that ended with "resource r-429 not found" is about to be repeated
C24_NotFoundRetried ==
    \E i \in DOMAIN tasks :
        /\ EndedNotFound(tasks[i])
        /\ tasks[i].pc = "GetResourceByID"
        /\ tasks[i].retry.status = "running"
        /\ tasks[i].retry.attempt = 1

(***************************************************************************)
(* Claims about a project without block storage client (checked under      *)
(* SpecScrape)                                                             *)
(***************************************************************************)
\* the scrape is in the block-storage namespace
InNamespaceEVS == ns <= Len(services) /\ services[ns] = NamespaceEVS

\* C25: if the block-storage client of a project could not be initialised, a
\* scrape of the block-storage namespace still completes: the compound id is
\* kept unresolved and the data point's records are emitted, exactly as when
\* the volume listing returns an error; the scrape never aborts or crashes.
C25_NilClientTolerated ==
    ~client.EVS =>
        /\ main.pc # "panic"
        /\ \A i \in DOMAIN tasks :
              /\ tasks[i].pc # "panic"
              /\ (InNamespaceEVS /\ tasks[i].pc = "done")
                    => /\ tasks[i].localResults # <<>>
                       /\ tasks[i].localResults[1].Labels[LabelResourceID]
                             = tasks[i].resourceID

\* what holds: with the client absent, a data point of the namespace whose id
\* has no inner dash needs no volume listing and its records are emitted
C25_UndecodableEmitted ==
    \A i \in DOMAIN tasks :
        (/\ ~client.EVS /\ InNamespaceEVS
         /\ ~evsLookupNeeded(NamespaceEVS, tasks[i].resourceID)
         /\ tasks[i].pc \notin {"extract", "ListVolumes"})
            => tasks[i].pc # "panic"

\* the goroutine of a data point of the block-storage namespace has called
\* ListVolumes on the nil client: the process has ended and the namespaces
\* scraped before it are not published further
C25_Crashed ==
    /\ ~client.EVS
    /\ InNamespaceEVS
    /\ main.pc = "panic"
    /\ \E i \in DOMAIN tasks : tasks[i].pc = "panic"

(***************************************************************************)
(* Claims about the metrics on the channel (checked under SpecScrape)      *)
(***************************************************************************)
\* published metric name, resource id, resource name and unit of a metric on
\* the channel
SeriesOf(p) ==
    <<p.name, p.labels[LabelResourceID], p.labels[LabelResourceName], p.labels[LabelUnit]>>

\* C26: within one scrape over all requested namespaces of a project, no two
\* published records have the same published metric name together with the
\* same resource id, resource name and unit, including when two requested
\* namespaces map to the same metric-name prefix (SYS.ECS and AGT.ECS both
\* give "ecs_").
C26_NoSeriesTwice ==
    \A i, j \in 1..Len(published) :
        i # j => SeriesOf(published[i]) # SeriesOf(published[j])

\* what holds: no two published records of one namespace are the same series
C26_NoSeriesTwiceInNamespace ==
    \A i, j \in 1..Len(published) :
        (i # j /\ published[i].labels[LabelNamespace] = published[j].labels[LabelNamespace])
            => SeriesOf(published[i]) # SeriesOf(published[j])

\* the series ecs_cpu_util of one resource is on the channel once for SYS.ECS
\* and once for AGT.ECS
C26_TwiceAcrossNamespaces ==
    \E i, j \in 1..Len(published) :
        /\ published[i].labels[LabelNamespace] = NamespaceECS
        /\ published[j].labels[LabelNamespace] = NamespaceAGT
        /\ SeriesOf(published[i]) = SeriesOf(published[j])

(***************************************************************************)
(* Claims about the pages of the catalog listing (checked under SpecScrape)*)
(***************************************************************************)
\* the number of the first page of the catalog that has no metrics or no marker
FinalPage(pages) ==
    CHOOSE k \in 1..Len(pages) :
        /\ pages[k].Metrics = <<>> \/ pages[k].Marker = <<>>
        /\ \A j \in 1..(k - 1) : pages[j].Metrics # <<>> /\ pages[j].Marker # <<>>

\* the definitions of the pages 1..k of the catalog, in page order
DefinitionsUpTo(pages, k) == Flatten([j \in 1..k |-> pages[j].Metrics])

\* the listing in progress has received the pages before page main.page of
\* the catalog, and asks for the page after them
ListingFollows(f, pages) ==
    /\ f.page <= FinalPage(pages)
    /\ f.acc = DefinitionsUpTo(pages, f.page - 1)
    /\ f.start = IF f.page = 1 THEN <<>> ELSE pages[f.page - 1].Marker

\* requests the listing can still send: the outer attempts left, the pages
\* left in an attempt and the inner attempts left for a page, in this order
ListingVariant(f, pages) ==
    LET perPage == rc.MaxRetries + 1
        perListing == perPage * Len(pages)
    IN (rc.MaxRetries - f.outer.attempt) * perListing
         + (Len(pages) - f.page) * perPage
         + (rc.MaxRetries - f.inner.attempt)

\* C27: the catalog listing follows the continuation marker of each response
\* and stops at the first response that has no metrics or no marker; it then
\* returns the concatenation, in page order, of the definitions of all pages
\* received; if any page fails after retries it returns an error and no
\* partial list.  It terminates whenever the remote API returns such a final
\* response after finitely many pages: every request of the listing that
\* does not end it lowers the number of requests it can still send.
C27_Pagination ==
    [][main.pc = "ListMetrics" =>
         \E pages \in CatalogPages(services[ns]) :
            /\ ListingFollows(main, pages)
            /\ main'.pc = "ListMetrics" =>
                  /\ ListingFollows(main', pages)
                  /\ ListingVariant(main', pages) < ListingVariant(main, pages)
                  /\ ListingVariant(main', pages) >= 0
            /\ (ListingEnds /\ ~main'.call.failed) =>
                  LET all == DefinitionsUpTo(pages, FinalPage(pages))
                  IN /\ main.page = FinalPage(pages)
                     /\ IF main'.pc = "BatchListMetricData"
                        THEN main'.metrics = buildBatchMetrics(all)
                        ELSE /\ buildBatchMetrics(all) = <<>>
                             /\ scraped'[Len(scraped')].status
                                   = IF all = <<>> THEN "noMetrics" ELSE "noData"
            /\ (ListingEnds /\ main'.call.failed) =>
                  /\ main'.pc = "Collect"
                  /\ scraped'[Len(scraped')].status = "defsFailed"
                  /\ scraped'[Len(scraped')].metricData = <<>>]_vars

\* C27 witness: the listing has received the first page of two and asks for
\* the page its marker names
C27_Witness ==
    /\ main.pc = "ListMetrics"
    /\ main.page = 2
    /\ main.start = sMarker1
    /\ main.acc # <<>>

(***************************************************************************)
(* Claims about the batch of the time-series query (checked under          *)
(* SpecScrape)                                                             *)
(***************************************************************************)
\* the definition has a name, a namespace and a dimension
WellFormed(m) == Len(m.MetricName) > 0 /\ Len(m.Namespace) > 0 /\ Len(m.Dimensions) > 0

\* batch holds the well-formed definitions of input, and only them, in the
\* order of input
IsBatchOf(batch, input) ==
    LET good == {k \in 1..Len(input) : WellFormed(input[k])}
        nth(i) == CHOOSE k \in good : Cardinality({j \in good : j <= k}) = i
    IN /\ Len(batch) = Cardinality(good)
       /\ \A i \in 1..Len(batch) :
             /\ batch[i].MetricName = input[nth(i)].MetricName
             /\ batch[i].Namespace = input[nth(i)].Namespace
             /\ batch[i].Dimensions = input[nth(i)].Dimensions

\* C28: the batch sent to the remote API contains exactly the metric
\* definitions of the input that have a non-empty name, a non-empty namespace
\* and at least one dimension, in input order: no malformed definition is
\* ever in the batch and no well-formed definition is left out.
C28_BatchIsFiltered ==
    main.pc = "BatchListMetricData" =>
        /\ main.metrics # <<>>
        /\ \E pages \in CatalogPages(services[ns]) :
              IsBatchOf(main.metrics, DefinitionsUpTo(pages, FinalPage(pages)))

\* C28 witness: the batch query of a catalog of three definitions, the second
\* of them without namespace, is about to be sent with the two others
C28_Witness ==
    /\ main.pc = "BatchListMetricData"
    /\ Len(main.metrics) = 2
    /\ \E pages \in CatalogPages(services[ns]) :
          /\ Len(pages[1].Metrics) = 3
          /\ ~WellFormed(pages[1].Metrics[2])
          /\ main.metrics[2].MetricName = pages[1].Metrics[3].MetricName

(***************************************************************************)
(* Claims about the resource id of a record (checked under SpecScrape)     *)
(***************************************************************************)
\* the dimensions of a data point as the label builder reads them
DimensionLabels(m) == AddDimensions(EmptyMap, m.Dimensions)

\* a value that can stand as resource id
Usable(v) == v # <<>> /\ v # ResourceIDUnknown

\* the usable values of the dimensions ending in "_id" that are no meta key
IdValues(m) ==
    LET d == DimensionLabels(m)
    IN {d[k] : k \in {x \in DOMAIN d :
           HasSuffix(x, sUnderscoreId) /\ x \notin MetaKeys /\ Usable(d[x])}}

\* the usable values of the other dimensions that are no meta key
OtherValues(m) ==
    LET d == DimensionLabels(m)
    IN {d[k] : k \in {x \in DOMAIN d :
           ~HasSuffix(x, sUnderscoreId) /\ x \notin MetaKeys /\ Usable(d[x])}}

\* the candidate resource ids of a data point
CandidateIDs(m) ==
    IF IdValues(m) # {} THEN IdValues(m)
    ELSE IF OtherValues(m) # {} THEN OtherValues(m)
    ELSE {ResourceIDUnknown}

\* the record carries a non-empty resource_id and a resource_name
Identified(r) ==
    /\ LabelResourceID \in DOMAIN r.Labels
    /\ r.Labels[LabelResourceID] # <<>>
    /\ LabelResourceName \in DOMAIN r.Labels

\* C29: the resource id extracted from a data point is the usable value of
\* one of its "_id" dimensions that is no meta key if there is one, else the
\* usable value of one of its other non-meta dimensions if there is one, else
\* (outside the object-storage override) "unknown"; and every emitted record
\* has a non-empty resource_id label and a resource_name label.
C29_ResourceIDSelection ==
    /\ [][\A i \in DOMAIN tasks :
            (tasks[i].pc = "extract" /\ tasks'[i].pc # "extract") =>
                ((services[ns] # NamespaceOBS
                     \/ IdValues(tasks[i].m) \cup OtherValues(tasks[i].m) # {}) =>
                        tasks'[i].resourceID \in CandidateIDs(tasks[i].m))]_vars
    /\ [](/\ \A i \in DOMAIN tasks :
                \A k \in 1..Len(tasks[i].localResults) :
                    Identified(tasks[i].localResults[k])
          /\ \A k \in 1..Len(results) : Identified(results[k])
          /\ \A j \in 1..Len(scraped) :
                \A k \in 1..Len(scraped[j].metricData) :
                    Identified(scraped[j].metricData[k]))

\* C29 witnesses: a data point with an "_id" dimension of value "unknown"
\* beside a usable other dimension has got the value of the other one, and
\* its record is assembled
C29_Witness ==
    \E i \in DOMAIN tasks :
        /\ tasks[i].pc = "done"
        /\ IdValues(tasks[i].m) = {}
        /\ sInstanceId \in DOMAIN DimensionLabels(tasks[i].m)
        /\ tasks[i].resourceID = sAbc
        /\ results # <<>>

\* a data point with an "_id" dimension after another usable dimension has got
\* the value of the "_id" dimension
C29_IdFirst ==
    \E i \in DOMAIN tasks :
        /\ tasks[i].pc = "done"
        /\ OtherValues(tasks[i].m) = {sAbc}
        /\ tasks[i].resourceID = sVm1

\* a data point outside object storage with a meta dimension only has got
\* "unknown"
C29_Unknown ==
    \E i \in DOMAIN tasks :
        /\ tasks[i].pc = "done"
        /\ services[ns] = NamespaceAS
        /\ DOMAIN DimensionLabels(tasks[i].m) = {sTenantId}
        /\ tasks[i].resourceID = ResourceIDUnknown
        /\ results # <<>>

(***************************************************************************)
(* Claims about the object-storage override (checked under SpecScrape)     *)
(***************************************************************************)
\* goroutine i has finished a data point of the object-storage namespace
ObsTaskDone(i) == tasks[i].pc = "done" /\ services[ns] = NamespaceOBS

\* the data point has neither a bucket-name nor an API-name dimension
ServiceScope(m) ==
    /\ getBucketNameFromDimensions(m.Dimensions) = <<>>
    /\ getAPINameFromDimensions(m.Dimensions) = <<>>

\* the records of the data point carry resource_id = resource_name = "total"
TotalRecords(t) ==
    /\ t.resourceID = ResourceIDTotal
    /\ \A k \in 1..Len(t.localResults) :
          /\ MapGet(t.localResults[k].Labels, LabelResourceID) = ResourceIDTotal
          /\ MapGet(t.localResults[k].Labels, LabelResourceName) = ResourceIDTotal

\* C30: a data point of the object-storage namespace with neither a
\* bucket-name nor an API-name dimension gives records with resource_id =
\* resource_name = "total"; one with an API-name dimension gets that API name
\* as resource id and the label operation = that API name.
C30_ObsOverride ==
    \A i \in DOMAIN tasks :
        ObsTaskDone(i) =>
            LET apiName == getAPINameFromDimensions(tasks[i].m.Dimensions)
            IN /\ ServiceScope(tasks[i].m) => TotalRecords(tasks[i])
               /\ apiName # <<>> =>
                     /\ tasks[i].resourceID = apiName
                     /\ \A k \in 1..Len(tasks[i].localResults) :
                           MapGet(tasks[i].localResults[k].Labels, sOperationKey) = apiName

\* what holds: the service-scope data point gets "total", the data point with
\* an API-name dimension gets the API name as resource id, and no record of
\* the namespace has an operation label
C30_NoOperationLabel ==
    \A i \in DOMAIN tasks :
        ObsTaskDone(i) =>
            LET apiName == getAPINameFromDimensions(tasks[i].m.Dimensions)
            IN /\ ServiceScope(tasks[i].m) => TotalRecords(tasks[i])
               /\ apiName # <<>> => tasks[i].resourceID = apiName
               /\ \A k \in 1..Len(tasks[i].localResults) :
                     sOperationKey \notin DOMAIN tasks[i].localResults[k].Labels

\* the record of a data point with the dimension api_name = GET_OBJECT is
\* assembled with resource_id GET_OBJECT and without operation label
C30_OperationMissing ==
    \E i \in DOMAIN tasks :
        /\ ObsTaskDone(i)
        /\ getAPINameFromDimensions(tasks[i].m.Dimensions) = sGetObject
        /\ Len(tasks[i].localResults) > 0
        /\ tasks[i].localResults[1].Labels[LabelResourceID] = sGetObject
        /\ sOperationKey \notin DOMAIN tasks[i].localResults[1].Labels
        /\ results # <<>>

\* the record of a service-scope data point is assembled with "total"
C30_Total ==
    \E i \in DOMAIN tasks :
        /\ ObsTaskDone(i)
        /\ ServiceScope(tasks[i].m)
        /\ Len(tasks[i].localResults) > 0
        /\ TotalRecords(tasks[i])
        /\ tasks[i].localResults[1].Labels[sScope] = ResourceIDTotal

(***************************************************************************)
(* Claims about the inventory enrichment (checked under SpecScrape)        *)
(***************************************************************************)
\* a resource id the inventory is not asked about
SyntheticID(namespace, resourceID) ==
    \/ resourceID = <<>>
    \/ resourceID = ResourceIDUnknown
    \/ namespace = NamespaceOBS
          /\ \E k \in 1..Len(OBSOperations) : resourceID = OBSOperations[k]

\* goroutine t is in the inventory lookup, or has been
InventoryAsked(t) ==
    \/ t.pc \in {"GetResourceByID", "ListAllResources"}
    \/ t.retry # NewRetry
    \/ t.call.site = "ListAllResources"

\* C31: for a data point whose resource id is empty, "unknown" or, in the
\* object-storage namespace, a known operation name, the goroutine neither
\* reads the inventory cache nor searches the inventory, and the inventory
\* enrichment returns its labels unchanged.
C31_NoLookupForSyntheticID ==
    \A i \in DOMAIN tasks :
        (tasks[i].pc # "extract" /\ SyntheticID(services[ns], tasks[i].resourceID)) =>
            /\ ~InventoryAsked(tasks[i])
            /\ callEnrichWithRMS(tasks[i]).pc = "convert"
            /\ callEnrichWithRMS(tasks[i]).labels = tasks[i].labels

\* C31 witness: with an inventory client, the record of the data point of
\* operation GET_OBJECT is assembled without any lookup
C31_Witness ==
    \E i \in DOMAIN tasks :
        /\ client.RMS
        /\ services[ns] = NamespaceOBS
        /\ tasks[i].resourceID = sGetObject
        /\ tasks[i].pc = "done"
        /\ ~InventoryAsked(tasks[i])
        /\ results # <<>>

\* with an inventory client, the record of a data point of resource id
\* "unknown" is assembled without any lookup
C31_Unknown ==
    \E i \in DOMAIN tasks :
        /\ client.RMS
        /\ tasks[i].resourceID = ResourceIDUnknown
        /\ tasks[i].pc = "done"
        /\ ~InventoryAsked(tasks[i])

(***************************************************************************)
(* Claims about the inventory cache of the lookup (checked under           *)
(* SpecScrape)                                                             *)
(***************************************************************************)
\* the cache holds record info, stored at time t, under both of its keys
StoredUnderBoth(cache, info, t) ==
    /\ sIdColon \o info[sId] \in DOMAIN cache
    /\ cache[sIdColon \o info[sId]] = [data |-> info, timestamp |-> t]
    /\ sNameColon \o info[sName] \in DOMAIN cache
    /\ cache[sNameColon \o info[sName]] = [data |-> info, timestamp |-> t]

\* the cache answers a lookup by this key
Answers(cache, key, t) == key \in DOMAIN cache /\ ~RmsExpired(cache[key], t)

\* goroutine i takes the step
Steps(i) == i \in DOMAIN tasks' /\ tasks'[i] # tasks[i]

C32_NoMatchStoresNothing ==
    \E i \in DOMAIN tasks :
        /\ tasks[i].retry.status = "failed"
        /\ tasks[i].retry.err = sResourceSpace \o tasks[i].resourceID \o sNotFound
        /\ rmsCache = EmptyMap

\* the toggles of the enrichment
Toggles == {LabelResourceName, LabelProjectID, LabelProjectName, sDomainNameKey, sTags}

\* the labels after an enrichment with inventory record rec under the toggles
\* on: each field is written when its own toggle is on, nothing else changes
GatedLabels(labels, rec, cl, c, on) ==
    LET name == MapGet(rec, sName)
        fields ==
            (IF LabelResourceName \in on /\ name # <<>>
             THEN {<<LabelResourceName, name>>} ELSE {})
            \cup (IF LabelProjectID \in on THEN {<<LabelProjectID, cl.ProjectID>>} ELSE {})
            \cup (IF LabelProjectName \in on
                  THEN {<<LabelProjectName, cl.ProjectName>>} ELSE {})
            \cup (IF sDomainNameKey \in on THEN {<<sDomainNameKey, c.DomainName>>} ELSE {})
            \cup (IF sTags \in on
                  THEN {<<k, rec[k]>> : k \in {x \in DOMAIN rec :
                           HasPrefix(x, sTagUnderscore) /\ rec[x] # <<>>}}
                  ELSE {})
        written == {f[1] : f \in fields}
    IN [k \in DOMAIN labels \cup written |->
           IF k \in written THEN (CHOOSE f \in fields : f[1] = k)[2] ELSE labels[k]]

\* goroutine i ends its inventory lookup with a record
Enriches(i) ==
    /\ tasks[i].pc \in {"GetResourceByID", "ListAllResources"}
    /\ Steps(i)
    /\ tasks'[i].retry.status = "ok"
    /\ tasks'[i].retry.result # NilMap

C33_AllOff ==
    \E i \in DOMAIN tasks :
        /\ cfg.ExportRMSLabels = {}
        /\ tasks[i].pc = "done"
        /\ tasks[i].retry.status = "ok"
        /\ tasks[i].retry.result # NilMap
        /\ DOMAIN tasks[i].labels \cap {LabelResourceName, LabelProjectID,
                                        LabelProjectName, sDomainNameKey} = {}

(***************************************************************************)
(* Claims about the bucket enrichment (checked under SpecScrape)           *)
(***************************************************************************)
\* goroutine t has a data point of a bucket and an object-storage client
BucketTask(t) ==
    /\ services[ns] = NamespaceOBS
    /\ getBucketNameFromDimensions(t.m.Dimensions) # <<>>
    /\ client.OBS

\* the tags lookup of goroutine t is over; both lookups are over
PastTagsLookup(t) == t.pc \notin {"extract", "GetBucketTags", "GetBucketTagging"}
PastBucketLookups(t) == PastTagsLookup(t) /\ t.pc \notin {"GetBucketInfo", "GetBucketLocation"}

\* l has the labels of map m
HasLabels(l, m) == \A k \in DOMAIN m : k \in DOMAIN l /\ l[k] = m[k]

\* the entries of the bucket cache: tags under "bucket:" + name, bucket name
\* and location under "info:" + name
BucketCacheShape ==
    \A key \in DOMAIN obsTagCache :
        IF HasPrefix(key, <<"b","u","c","k","e","t",":">>)
        THEN sLocation \notin DOMAIN obsTagCache[key].data
        ELSE /\ HasPrefix(key, <<"i","n","f","o",":">>)
             /\ DOMAIN obsTagCache[key].data = {sBucketName, sLocation}
             /\ <<"i","n","f","o",":">> \o obsTagCache[key].data[sBucketName] = key

\* C34: the tags lookup and the info lookup of a bucket are independent: when
\* the info lookup succeeds its labels are merged whether or not the tags
\* lookup failed, when the tags lookup succeeds its labels stay whether or not
\* the info lookup failed, the record is emitted in every case, and each
\* lookup is answered by the cache only from its own key.
C34_IndependentLookups ==
    /\ [](/\ BucketCacheShape
          /\ \A i \in DOMAIN tasks :
                BucketTask(tasks[i]) =>
                    LET t == tasks[i]
                        b == getBucketNameFromDimensions(t.m.Dimensions)
                    IN /\ (PastTagsLookup(t) /\ t.tagsErr = Nil) =>
                              /\ sBucketColon \o b \in DOMAIN obsTagCache
                              /\ HasLabels(t.labels,
                                           tagLabels(obsTagCache[sBucketColon \o b].data))
                       /\ (PastBucketLookups(t) /\ t.infoErr = Nil) =>
                              /\ sInfoColon \o b \in DOMAIN obsTagCache
                              /\ HasLabels(t.labels, (sBucketName :> b)
                                     @@ (sLocation :> obsTagCache[sInfoColon \o b].data[sLocation]))
                       /\ t.pc = "done" =>
                              /\ t.localResults # <<>>
                              /\ IsPartOf(t.localResults, results)
                              /\ \A k \in 1..Len(t.localResults) :
                                    MapGet(t.localResults[k].Labels, sBucketName) = b)
    /\ [][\A i \in DOMAIN tasks :
            (BucketTask(tasks[i]) /\ Steps(i)) =>
                LET b == getBucketNameFromDimensions(tasks[i].m.Dimensions)
                IN /\ tasks[i].pc = "GetBucketTags" =>
                      IF sBucketColon \o b \in DOMAIN obsTagCache
                           /\ ObsFresh(obsTagCache[sBucketColon \o b], now)
                      THEN tasks'[i].pc = "GetBucketInfo"
                      ELSE tasks'[i].pc = "GetBucketTagging"
                   /\ tasks[i].pc = "GetBucketInfo" =>
                      IF sInfoColon \o b \in DOMAIN obsTagCache
                           /\ ObsFresh(obsTagCache[sInfoColon \o b], now)
                      THEN tasks'[i].pc \notin {"GetBucketInfo", "GetBucketLocation"}
                      ELSE tasks'[i].pc = "GetBucketLocation"
                   /\ tasks[i].pc \in {"GetBucketTagging", "GetBucketLocation"} =>
                      tasks'[i].pc \notin {"panic", "extract"}]_vars

\* C34 witness: the tags fetch of a bucket failed, its location fetch
\* succeeded, and the record is in the results with the location
C34_Witness ==
    \E i \in DOMAIN tasks :
        /\ BucketTask(tasks[i])
        /\ tasks[i].pc = "done"
        /\ tasks[i].tagsErr # Nil
        /\ tasks[i].infoErr = Nil
        /\ tasks[i].localResults[1].Labels[sLocation] = sEuDe
        /\ sTagUnderscore \o sEnv \notin DOMAIN tasks[i].localResults[1].Labels
        /\ IsPartOf(tasks[i].localResults, results)

\* the location fetch of a bucket failed after its tags were merged, and the
\* record is in the results with the tag
C34_TagsKept ==
    \E i \in DOMAIN tasks :
        /\ BucketTask(tasks[i])
        /\ tasks[i].pc = "done"
        /\ tasks[i].tagsErr = Nil
        /\ tasks[i].infoErr # Nil
        /\ tasks[i].localResults[1].Labels[sTagUnderscore \o sEnv] = sProd
        /\ sLocation \notin DOMAIN tasks[i].localResults[1].Labels
        /\ IsPartOf(tasks[i].localResults, results)

\* the cache holds the info of the bucket and not its tags, and the tags
\* lookup has gone to the object storage
C34_InfoDoesNotAnswerTags ==
    \E i \in DOMAIN tasks :
        /\ BucketTask(tasks[i])
        /\ tasks[i].pc = "GetBucketTagging"
        /\ DOMAIN obsTagCache = {sInfoColon \o sB1}

(***************************************************************************)
(* The label maps of the records.  A Go map is a reference: heap[a] is the *)
(* map at address a, and a record or a goroutine holds the address.        *)
(***************************************************************************)
\* cloneMap, were it to return its argument
cloneMap_Shared(h, in) == [heap |-> h, out |-> in]

\* cloneMap: a new map with the entries of the map at address in
cloneMap(h, in) == [heap |-> Append(h, h[in]), out |-> Len(h) + 1]

\* createSingleExport on the heap: labels is the address of the label map of
\* the data point
createSingleExportAt(h, metricName, labels, unit, value, timestamp) ==
    LET labelsWithUnit == cloneMap(h, labels)
        a == labelsWithUnit.out
    IN [heap |-> IF unit # <<>>
                 THEN [labelsWithUnit.heap EXCEPT ![a] = MapSet(@, LabelUnit, unit)]
                 ELSE labelsWithUnit.heap,
        exports |-> <<[MetricName |-> metricName, Labels |-> a, Value |-> value,
                       Unit |-> unit, Timestamp |-> timestamp]>>]

\* convertDatapointsToExports lines 580-590 on the heap
RECURSIVE ExportsOfDatapointsAt(_, _, _, _, _)
ExportsOfDatapointsAt(h, metricName, datapoints, labels, unit) ==
    IF datapoints = <<>> THEN [heap |-> h, exports |-> <<>>]
    ELSE LET dp == Head(datapoints)
             value == IF dp.Average = <<>> THEN 0 ELSE dp.Average[1]
             first == createSingleExportAt(h, metricName, labels, unit, value, dp.Timestamp)
             rest == ExportsOfDatapointsAt(first.heap, metricName, Tail(datapoints),
                                           labels, unit)
         IN [heap |-> rest.heap, exports |-> first.exports \o rest.exports]

\* convertDatapointsToExports on the heap
convertDatapointsToExportsAt(h, m, labels, unit, t) ==
    IF Len(m.Datapoints) = 0
    THEN createSingleExportAt(h, m.MetricName, labels, unit, 0, t)
    ELSE ExportsOfDatapointsAt(h, m.MetricName, m.Datapoints, labels, unit)

\* the data points of a batch answer: two samples with a unit, one sample
\* with a unit, no sample and no unit
ExportDataPoints ==
    {BatchMetricData([Namespace |-> n, MetricName |-> sCpuUtil,
                      Dimensions |-> <<Dimension(sInstanceId, sVm1)>>]) :
        n \in {NamespaceECS, NamespaceOBS, NamespaceEVS}}

\* the labels of a data point when its records are built
FinalLabels(m) ==
    MapSet(extractLabelsAndResourceID(m, m.Namespace, sVm1).labels,
           LabelResourceName, ResourceIDUnknown)

\* how many goroutines build records
MaxExportTasks == 2

\* processMetrics: the goroutines have their label maps, each at its address
InitExport ==
    /\ rc \in {c \in RetryConfigs : c.MaxRetries = 0 /\ c.BackoffMultiplier.num = 2
                                      /\ c.InitialBackoff = 1000 /\ c.MaxBackoff = 3000}
    /\ wr = NewRetry
    /\ IdleCache
    /\ client = <<>>
    /\ cfg = <<>>
    /\ namespaces = <<>>
    /\ services = <<>>
    /\ ns = 0
    /\ main = <<>>
    /\ \E n \in 1..MaxExportTasks : \E ms \in [1..n -> ExportDataPoints] :
          /\ tasks = [i \in 1..n |-> [NewTask(ms[i]) EXCEPT !.pc = "convert", !.labels = i]]
          /\ heap = [i \in 1..n |-> FinalLabels(ms[i])]
    /\ results = <<>>
    /\ scraped = <<>>
    /\ published = <<>>

ExportFrame == UNCHANGED <<retryVars, cacheVars, client, cfg, namespaces, services, ns, main,
                           scraped, published>>

\* processMetrics line 261: convertDatapointsToExports
Convert(i) ==
    /\ tasks[i].pc = "convert"
    /\ LET m == tasks[i].m
           built == convertDatapointsToExportsAt(heap, m, tasks[i].labels,
                                                 safeUnit(m.Unit), TimeNow)
       IN /\ heap' = built.heap
          /\ tasks' = [tasks EXCEPT ![i] = [@ EXCEPT !.pc = "append",
                                                     !.localResults = built.exports]]
    /\ UNCHANGED results
    /\ ExportFrame

\* processMetrics lines 262-264: the records are appended under the mutex
AppendExports(i) ==
    /\ tasks[i].pc = "append"
    /\ results' = results \o tasks[i].localResults
    /\ tasks' = [tasks EXCEPT ![i] = [@ EXCEPT !.pc = "done"]]
    /\ UNCHANGED heap
    /\ ExportFrame

\* a reader of the results writes a label of record k through its map
DownstreamWrite(k) ==
    /\ sScope \notin DOMAIN heap[results[k].Labels]
    /\ heap' = [heap EXCEPT ![results[k].Labels] = MapSet(@, sScope, ResourceIDTotal)]
    /\ UNCHANGED <<tasks, results>>
    /\ ExportFrame

NextExport ==
    \/ \E i \in DOMAIN tasks : Convert(i)
    \/ \E i \in DOMAIN tasks : AppendExports(i)
    \/ \E k \in DOMAIN results : DownstreamWrite(k)

SpecExport == InitExport /\ [][NextExport]_vars

(***************************************************************************)
(* Claims about the label maps of the records (checked under SpecExport)   *)
(***************************************************************************)
\* the records built so far, each with the goroutine that built it
BuiltRecords ==
    UNION {{<<i, k>> : k \in 1..Len(tasks[i].localResults)} : i \in DOMAIN tasks}

\* the address of the label map of a built record
LabelsOf(ik) == tasks[ik[1]].localResults[ik[2]].Labels

SweepVisits == cleaner.pc = "visit" /\ cleaner'.pc = "range"
SweepEnds == cleaner.pc = "range" /\ cleaner'.pc = "idle"

\* C36: a run of the sweep removes every entry older than the TTL and leaves
\* every entry whose age is at most the TTL: every entry a step of the sweep
\* removes is older than the TTL at that step, and when a run ends no entry
\* older than the TTL at the start of the run is left.
C36_SweepByAge ==
    [][/\ SweepVisits =>
             /\ \A k \in RemovedRms : RmsExpired(rmsCache[k], now)
             /\ \A k \in RemovedObs : ObsExpired(obsTagCache[k], now)
       /\ SweepEnds =>
             /\ \A k \in DOMAIN rmsCache' : ~RmsExpired(rmsCache'[k], cleaner.now)
             /\ \A k \in DOMAIN obsTagCache' : ~ObsExpired(obsTagCache'[k], cleaner.now)]_vars

\* what holds: a step of the sweep removes the key it visits exactly when the
\* value Range had loaded for it is older than the TTL at the start of the
\* run, whatever the key holds by then, and a run leaves no entry that was
\* older than the TTL at its start
C36_SweepByLoadedValue ==
    [][/\ SweepVisits =>
             /\ RemovedRms = IF instance = "rms" /\ RmsExpired(cleaner.entry, cleaner.now)
                             THEN {cleaner.key} \cap DOMAIN rmsCache ELSE {}
             /\ RemovedObs = IF instance = "obs" /\ ObsExpired(cleaner.entry, cleaner.now)
                             THEN {cleaner.key} \cap DOMAIN obsTagCache ELSE {}
       /\ SweepEnds =>
             /\ \A k \in DOMAIN rmsCache' : ~RmsExpired(rmsCache'[k], cleaner.now)
             /\ \A k \in DOMAIN obsTagCache' : ~ObsExpired(obsTagCache'[k], cleaner.now)]_vars

\* the sweep is about to delete a key whose expired entry it had loaded and
\* which a set has since replaced by an entry of age 0
C36_FreshEntryAtRisk ==
    /\ cleaner.pc = "visit"
    /\ instance = "rms"
    /\ RmsExpired(cleaner.entry, cleaner.now)
    /\ cleaner.key \in DOMAIN rmsCache
    /\ rmsCache[cleaner.key].timestamp = now

(***************************************************************************)
(* The start of the cache cleaners.  cacheCleaner and obsCacheCleaner are  *)
(* sync.Once values; InitRmsClient and NewObsClient call Do on them once   *)
(* the client is built.  The variable cleaner holds, for each of the two,  *)
(* the state of the Once and the number of cleaner goroutines started;     *)
(* tasks holds the initialisations, one per project, which the model lets  *)
(* interleave.                                                             *)
(***************************************************************************)
\* how many projects are initialised
MaxProjects == 2

\* a sync.Once that has not run, and no cleaner started
NewOnce == [done |-> FALSE, locked |-> FALSE, started |-> 0]

\* sync.Once.doSlow without its second test of done
doSlow_NoRecheck(o) == [o EXCEPT !.done = TRUE, !.started = @ + 1]

\* sync.Once.doSlow under the mutex: f runs if done is still unset, and done
\* is set when f has returned; f is startRmsCacheCleaner or
\* startObsTagCacheCleaner, which starts one cleaner goroutine
doSlow(o) == IF o.done THEN o ELSE [o EXCEPT !.done = TRUE, !.started = @ + 1]

\* the Once that the client constructor at this position calls
OnceOf(pc) == IF pc \in {"InitRmsClient", "Do_rms", "doSlow_rms", "Locked_rms"}
              THEN "cacheCleaner" ELSE "obsCacheCleaner"

InitClients ==
    /\ rc \in {c \in RetryConfigs : c.MaxRetries = 0 /\ c.BackoffMultiplier.num = 2
                                      /\ c.InitialBackoff = 1000 /\ c.MaxBackoff = 3000}
    /\ wr = NewRetry
    /\ now = 0
    /\ instance = "none"
    /\ rmsCache = <<>>
    /\ obsTagCache = <<>>
    /\ getter = <<>>
    /\ cleaner = [cacheCleaner |-> NewOnce, obsCacheCleaner |-> NewOnce]
    /\ client = <<>>
    /\ cfg = <<>>
    /\ namespaces = <<>>
    /\ services = <<>>
    /\ ns = 0
    /\ main = <<>>
    /\ \E n \in 1..MaxProjects :
          tasks = [i \in 1..n |-> [pc |-> "InitRmsClient", RMS |-> FALSE, OBS |-> FALSE]]
    /\ results = <<>>
    /\ scraped = <<>>
    /\ published = <<>>
    /\ heap = <<>>

ClientsFrame == UNCHANGED <<retryVars, now, instance, rmsCache, obsTagCache, getter,
                            scrapeVarsButTasks>>

\* InitRmsClient lines 350-367 and NewObsClient lines 29-35: the client is
\* built, or the constructor returns an error before it reaches Do
BuildClient(i) ==
    /\ tasks[i].pc \in {"InitRmsClient", "NewObsClient"}
    /\ \E built \in BOOLEAN :
         tasks' = [tasks EXCEPT ![i] =
            IF tasks[i].pc = "InitRmsClient"
            THEN IF built THEN [@ EXCEPT !.pc = "Do_rms"] ELSE [@ EXCEPT !.pc = "done"]
            ELSE IF built THEN [@ EXCEPT !.pc = "Do_obs"] ELSE [@ EXCEPT !.pc = "done"]]
    /\ UNCHANGED cleaner
    /\ ClientsFrame

\* what follows Do in the constructor and in NewClientsWithEndpoints
AfterDo(t) ==
    IF t.pc \in {"Do_rms", "Locked_rms"}
    THEN [t EXCEPT !.pc = "NewObsClient", !.RMS = TRUE]
    ELSE [t EXCEPT !.pc = "done", !.OBS = TRUE]

\* sync.Once.Do: the load of done
OnceDo(i) ==
    /\ tasks[i].pc \in {"Do_rms", "Do_obs"}
    /\ tasks' = [tasks EXCEPT ![i] =
          IF cleaner[OnceOf(tasks[i].pc)].done THEN AfterDo(@)
          ELSE [@ EXCEPT !.pc = IF tasks[i].pc = "Do_rms" THEN "doSlow_rms"
                                ELSE "doSlow_obs"]]
    /\ UNCHANGED cleaner
    /\ ClientsFrame

\* sync.Once.doSlow: o.m.Lock() returns
OnceLock(i) ==
    /\ tasks[i].pc \in {"doSlow_rms", "doSlow_obs"}
    /\ ~cleaner[OnceOf(tasks[i].pc)].locked
    /\ cleaner' = [cleaner EXCEPT ![OnceOf(tasks[i].pc)].locked = TRUE]
    /\ tasks' = [tasks EXCEPT ![i] =
          [@ EXCEPT !.pc = IF tasks[i].pc = "doSlow_rms" THEN "Locked_rms"
                           ELSE "Locked_obs"]]
    /\ ClientsFrame

\* sync.Once.doSlow: the test of done, f, the store of done and the unlock
OnceRun(i) ==
    /\ tasks[i].pc \in {"Locked_rms", "Locked_obs"}
    /\ cleaner' = [cleaner EXCEPT ![OnceOf(tasks[i].pc)] =
                      [doSlow(@) EXCEPT !.locked = FALSE]]
    /\ tasks' = [tasks EXCEPT ![i] = AfterDo(@)]
    /\ ClientsFrame

NextClients ==
    \/ \E i \in DOMAIN tasks : BuildClient(i)
    \/ \E i \in DOMAIN tasks : OnceDo(i)
    \/ \E i \in DOMAIN tasks : OnceLock(i)
    \/ \E i \in DOMAIN tasks : OnceRun(i)

SpecClients == InitClients /\ [][NextClients]_vars

(***************************************************************************)
(* Claims about the start of the cleaners (checked under SpecClients)      *)
(***************************************************************************)
\* some project has its inventory client, its object-storage client
SomeRms == \E i \in DOMAIN tasks : tasks[i].RMS
SomeObs == \E i \in DOMAIN tasks : tasks[i].OBS

\* C37: for each cache the cleaner is started exactly once, however many
\* clients are initialised and however their initialisations interleave: at
\* most one cleaner of each cache is ever started, and one is started by the
\* time the first client of the cache is initialised.
C37_CleanerStartedOnce ==
    /\ cleaner.cacheCleaner.started <= 1
    /\ cleaner.obsCacheCleaner.started <= 1
    /\ SomeRms => cleaner.cacheCleaner.started = 1
    /\ SomeObs => cleaner.obsCacheCleaner.started = 1

\* C37 witness: two projects have their inventory and object-storage
\* clients, and one cleaner of each cache runs
C37_Witness ==
    /\ Len(tasks) = 2
    /\ \A i \in DOMAIN tasks : tasks[i].pc = "done" /\ tasks[i].RMS /\ tasks[i].OBS
    /\ cleaner.cacheCleaner.started = 1
    /\ cleaner.obsCacheCleaner.started = 1

\* two initialisations have both found done unset and wait for the mutex
C37_BothInSlowPath ==
    \E i, j \in DOMAIN tasks :
        /\ i # j
        /\ tasks[i].pc = "Locked_rms"
        /\ tasks[j].pc = "doSlow_rms"

(***************************************************************************)
(* Claims about termination of a scrape (checked under FairScrape)         *)
(***************************************************************************)
\* the steps of the goroutine of Collect up to wg.Wait: remote calls of the
\* monitoring service, which are taken to return, and the code between them
CollectStep ==
    \/ ExportMetricValuesBatch
    \/ CollectReturn
    \/ ListMetrics
    \/ BatchListMetricData

\* the steps taken while processMetrics waits in wg.Wait: those of the
\* goroutines of the data points, and the return of wg.Wait
ProcessStep ==
    \/ \E i \in DOMAIN tasks :
          \/ Extract(i) \/ LookupEVSID(i)
          \/ GetBucketTags(i) \/ GetBucketTagging(i)
          \/ GetBucketInfo(i) \/ GetBucketLocation(i)
          \/ GetResourceByID(i) \/ ListAllResources(i)
          \/ Lock_results(i) \/ Append_results(i)
    \/ Publish

\* processMetrics is in wg.Wait in a process that has not panicked: a
\* goroutine of a data point is runnable, or all are done and wg.Wait returns.
\* This is the enabling condition of ProcessStep (every state with
\* main.pc = "Wait" has a successor by ProcessStep).
Waiting == main.pc = "Wait"

\* The Go scheduler runs a runnable goroutine, and every remote call returns
\* with a page, a result or an error: weak fairness of the steps of Collect
\* and of the steps under wg.Wait, the latter written out with its enabling
\* condition, WF_vars(ProcessStep) = []<>~Waiting \/ []<><<ProcessStep>>_vars.
FairScrape ==
    /\ SpecScrape
    /\ WF_vars(CollectStep)
    /\ ([]<>(~Waiting) \/ []<><<ProcessStep>>_vars)

\* the scrape has returned its records
ScrapeReturned == main.pc = "done"

\* every retry loop in progress is within its limit of attempts
RetriesWithinLimit ==
    /\ main.outer.attempt <= rc.MaxRetries
    /\ main.inner.attempt <= rc.MaxRetries
    /\ \A i \in DOMAIN tasks : tasks[i].retry.attempt <= rc.MaxRetries

\* C38: a scrape runs to completion: when every remote call returns and
\* every listing reaches a final page, every retry loop ends after at most
\* maxRetries retries, every task of a data point finishes, and the scrape
\* eventually returns its records.
C38_ScrapeCompletes == [](RetriesWithinLimit) /\ <>ScrapeReturned

\* what holds: the retry loops keep within their limit, and a scrape of a
\* project that has its block-storage client returns
C38_CompletesWithClient ==
    [](RetriesWithinLimit) /\ (client.EVS => <>ScrapeReturned)

\* the scrape of a project without block-storage client has stopped in the
\* block-storage namespace with namespaces left to scrape: no step follows
C38_Stopped ==
    /\ ~client.EVS
    /\ main.pc = "panic"
    /\ ~ENABLED NextScrape

(***************************************************************************)
(* Claims about the samples of a data point (checked under SpecScrape)     *)
(***************************************************************************)
\* Collect line 75: the deduplication key of an export record
ExportKey(namespace, e) ==
    labelKey(createMetricName(namespace, e.MetricName),
             getValueOrDefault(MapGet(e.Labels, LabelResourceID), ResourceIDUnknown),
             getValueOrDefault(MapGet(e.Labels, LabelResourceName), ResourceIDUnknown),
             getValueOrDefault(e.Unit, ResourceIDUnknown),
             e.MetricName)

\* the keys of the records of data point i
KeysOf(i) ==
    {ExportKey(services[ns], tasks[i].localResults[k]) :
        k \in 1..Len(tasks[i].localResults)}

\* no other data point of the namespace has a record with a key of data point i
KeyUnshared(i) == \A j \in DOMAIN tasks \ {i} : KeysOf(j) \cap KeysOf(i) = {}

\* the metrics this step sends on the channel
NewlyPublished == SubSeq(published', Len(published) + 1, Len(published'))

\* metric p on the channel is of data point i: its name and constant labels
\* are those of the records of i
SentFor(i, p) ==
    LET e == tasks[i].localResults[1]
    IN /\ p.name = createMetricName(services[ns], e.MetricName)
       /\ p.labels[LabelResourceID]
             = getValueOrDefault(MapGet(e.Labels, LabelResourceID), ResourceIDUnknown)
       /\ p.labels[LabelResourceName]
             = getValueOrDefault(MapGet(e.Labels, LabelResourceName), ResourceIDUnknown)
       /\ p.labels[LabelUnit] = getValueOrDefault(e.Unit, ResourceIDUnknown)

\* the value of the first sample of data point m
FirstValue(m) ==
    IF m.Datapoints[1].Average = <<>> THEN 0 ELSE m.Datapoints[1].Average[1]

\* C39: for a data point with n >= 2 samples whose deduplication key no other
\* data point of the scrape shares, exactly one record is published, and its
\* value is that of the first sample of the data point's sample list; the
\* other n-1 samples are not published.
C39_FirstSampleOnly ==
    [][(ProcessMetricsReturns /\ instance = "scrape") =>
          \A i \in DOMAIN tasks :
              (Len(tasks[i].m.Datapoints) >= 2 /\ KeyUnshared(i)) =>
                  LET sent == {k \in DOMAIN NewlyPublished :
                                  SentFor(i, NewlyPublished[k])}
                  IN /\ Cardinality(sent) = 1
                     /\ \A k \in sent : NewlyPublished[k].value = FirstValue(tasks[i].m)]_vars

\* C39 witness: the compute namespace has returned the two records of the
\* data point of vm-1, of values 10 and 11 in the order of its samples; the
\* channel has the metric of value 10 and none of value 11
C39_Witness ==
    /\ instance = "scrape"
    /\ \E k \in DOMAIN scraped :
          /\ scraped[k].namespace = NamespaceECS
          /\ \E a, b \in DOMAIN scraped[k].metricData :
                /\ a < b
                /\ scraped[k].metricData[a].Value = 10
                /\ scraped[k].metricData[b].Value = 11
    /\ \E p \in DOMAIN published : published[p].value = 10
    /\ \A p \in DOMAIN published : published[p].value # 11

(***************************************************************************)
(* Claims about the row-level filter (checked under SpecScrape)            *)
(***************************************************************************)
\* the metric name starts with "id_"
StartsWithId(name) == Len(name) >= 3 /\ SubSeq(name, 1, 3) = <<"i","d","_">>

\* data point m of the namespace is one the claim says is filtered
RowFiltered(namespace, m) == namespace = NamespaceAGT /\ StartsWithId(m.MetricName)

\* processMetrics starts the goroutines in this step
ProcessMetricsStarts == main.pc = "BatchListMetricData" /\ main'.pc = "Wait"

\* C40: in the namespace AGT.ECS a data point whose metric name starts with
\* "id_" contributes no record to the scrape result and triggers no
\* resolution or enrichment call (no goroutine is started for it, and the
\* goroutines are what resolves and enriches); in every other namespace a
\* metric name starting with "id_" is not filtered.
C40_RowFilter ==
    /\ [][ProcessMetricsStarts =>
            \A k \in DOMAIN main'.batchData :
                LET m == main'.batchData[k]
                IN m.MetricName # <<>> =>
                      ((\E i \in DOMAIN tasks' : tasks'[i].m = m)
                          <=> ~RowFiltered(services[ns], m))]_vars
    /\ [][ProcessMetricsReturns =>
            LET returned == scraped'[Len(scraped')].metricData
            IN \A k \in DOMAIN main.batchData :
                  LET m == main.batchData[k]
                  IN m.MetricName # <<>> =>
                        ((\E r \in DOMAIN returned :
                              returned[r].MetricName = m.MetricName)
                            <=> ~RowFiltered(services[ns], m))]_vars
    /\ [](\A i \in DOMAIN tasks : ~RowFiltered(services[ns], tasks[i].m))

\* C40 witness: the batch answer of AGT.ECS holds cpu_util and id_cpu_util;
\* one goroutine ran, for cpu_util, and its record is the whole result
C40_Witness ==
    /\ main.pc = "Wait"
    /\ services[ns] = NamespaceAGT
    /\ \E k \in DOMAIN main.batchData : main.batchData[k].MetricName = sIdCpuUtil
    /\ Len(tasks) = 1
    /\ tasks[1].pc = "done"
    /\ tasks[1].m.MetricName = sCpuUtil
    /\ \A r \in DOMAIN results : results[r].MetricName = sCpuUtil

\* the record of id_cpu_util of the scaling namespace is in the result
C40_OtherNamespaceKept ==
    \E k \in DOMAIN scraped :
        /\ scraped[k].namespace = NamespaceAS
        /\ \E r \in DOMAIN scraped[k].metricData :
              scraped[k].metricData[r].MetricName = sIdCpuUtil

====
